---- MODULE Spec2Model ----
(***************************************************************************)
(* Orchestration of the BigQuery project export/import tool:               *)
(* main.py (count_tasks, main), exporter.py (export_project and the        *)
(* export_* tasks) and importer.py (import_project and the import_* tasks).*)
(* The warehouse, the bucket and the transfer service are the environment: *)
(* their answers are inputs, their failures are nondeterministic choices.  *)
(***************************************************************************)
EXTENDS Integers, Sequences, FiniteSets, TLC

VARIABLES
    mode,           \* args.mode: "export" | "import"
    components,     \* args.components as a set
    download,       \* args.download_after_export
    liveDatasets,   \* bq_client.list_datasets(): dataset ids of the project, in order
    liveTables,     \* per dataset: number of managed ('TABLE') tables in the project
    configBlobs,    \* bucket blobs named *_config.json in listing order: their 'datasets'
    storedTables,   \* per dataset: number of distinct table ids with .parquet blobs
    total,          \* tqdm total = count_tasks(...)
    progress,       \* number of progress_bar.update(1) calls performed
    pc,             \* position of the orchestrating thread
    config,         \* config['datasets'] of the running export_project/import_project
    di,             \* index in config of the dataset being processed
    kind,           \* import: the stage the orchestrating thread is at
    busy,           \* the current stage / scheduled-query task has begun and not ended
    exc,            \* origin of the exception propagating on the orchestrating thread
    pool,           \* per executor: tasks submitted, taken by a worker, returned, raised
    failed,         \* some pooled task went through its except branch
    stage,          \* per dataset and kind: "idle", "submitted" (export), "running" |
                    \* "finished" (import)
    sqRuns,         \* calls of export_/import_scheduled_queries so far
    last,           \* import: what the sequential task that just returned did with its records
    completed,      \* "... of project ... completed" has been logged
    bucket,         \* what the storage service holds under args.bucket_name
    bucketCalls,    \* the storage calls of the latest BigQueryBase.__init__
    probe,          \* import: the get_dataset / create_dataset calls of the latest iteration
    sqOut,          \* export: what export_scheduled_queries did
    bar_n,          \* progress_bar.n, the attribute update(1) adds to
    upc,            \* per thread: where it is in its task and its update(1)
    reg,            \* per thread: the value of progress_bar.n it has loaded
    routines,       \* export_routines: the body of each routine of the dataset
    ri,             \* export_routines: index of the routine the loop is at
    serialized_routines,  \* export_routines: the bodies serialized so far
    routinesBlob,   \* the blob {dataset_id}_routines.json
    rpc,            \* export_routines: "off" | "loop" | "saved" | "raised"
    rexc,           \* export_routines: what its except branch caught
    project_id,     \* blob names: args.project_id
    writers,        \* blob names: two tasks of one export run
    blobs,          \* blob names: per task, the names of the blobs it has written
    textKind,       \* stripping: the kind of object whose text is exported
    srcText,        \* stripping: the text as the service returns it
    persisted,      \* stripping: what the export task has serialized of it
    exported,       \* round trip: the object as the exporting project holds it
    blobRecord,     \* round trip: its record in the blob
    rebuilt,        \* round trip: the object the import hands to create_*
    rtpc,           \* round trip: "off" | "live" | "stored" | "created"
    listing,        \* counting: per dataset, the table_type of each listed table
    stored,         \* counting: per dataset, the table ids exported to the bucket
    bucketNames,    \* counting: the names of the blobs in the bucket
    counted,        \* counting: what count_tasks returned, -1 before the call
    fn,             \* one task: the task function invoked
    steps,          \* one task: the calls its body makes, in order
    tpos,           \* one task: the call the body is at
    tstate,         \* one task: "off" | "body" | "except" | "returned" | "logged" | "raised"
    terrs,          \* one task: the errors an inner try has logged
    extract,        \* export_table: "none" | "submitted" | "ok" | "failed"
    schemaWritten,  \* export_table: {dataset_id}/{table_id}_schema.json is written
    regionList,     \* scheduled queries: what get_all_regions returned, in order
    transfers,      \* scheduled queries: per region, what the transfer service holds
    rgi,            \* scheduled queries: index of the region the loop is at
    qi,             \* scheduled queries: 0 before the listing, else index of the query
    all_queries,    \* scheduled queries: the queries serialized so far
    sqBlob,         \* the blob scheduled_queries.json
    sqpc            \* scheduled queries: "off" | "regions" | "saved" | "raised"

\* the run of main()
runVars == <<mode, components, download, liveDatasets, liveTables, configBlobs,
             storedTables, total, progress, pc, config, di, kind, busy, exc, pool,
             failed, stage, sqRuns, last, completed, bucket, bucketCalls,
             probe, sqOut>>
\* the threads inside progress_bar.update(1)
counterVars == <<bar_n, upc, reg>>
\* one export_routines task
routineVars == <<routines, ri, serialized_routines, routinesBlob, rpc, rexc>>
\* what the scenarios of single operations add to the run
\* two export tasks and their blobs
blobVars == <<project_id, writers, blobs>>
\* the text of one exported object
textVars == <<textKind, srcText, persisted>>
\* one object through export, storage and import
tripVars == <<exported, blobRecord, rebuilt, rtpc>>
\* one call of count_tasks
countVars == <<listing, stored, bucketNames, counted>>
\* one invocation of a task function
taskVars == <<fn, steps, tpos, tstate, terrs, extract, schemaWritten>>
\* one export_scheduled_queries task, region by region
regionVars == <<regionList, transfers, rgi, qi, all_queries, sqBlob, sqpc>>
unitVars == <<counterVars, routineVars, blobVars, textVars, tripVars, countVars, taskVars,
              regionVars>>
vars == <<runVars, unitVars>>

\* ---- bounds of the model -------------------------------------------------
NumDatasets == 2      \* dataset ids are 1..NumDatasets
MaxTables == 1        \* managed tables / stored table ids per dataset
MaxObjects == 2       \* records in one *_routines/_views/_external_tables/scheduled_queries blob
MaxConfigBlobs == 2   \* *_config.json blobs in the bucket
LoadTables == 9       \* tables of the dataset in the pool-saturation scenarios
NumUpdaters == 3      \* pooled tasks whose progress updates may overlap

\* ---- program constants ---------------------------------------------------
\* ThreadPoolExecutor(max_workers=8)
MaxWorkers == 8

Modes == {"export", "import"}
\* argparse choices of --components
Kinds == {"routines", "views", "external_tables", "tables", "scheduled_queries"}
\* the kinds that have tasks per dataset
StageKinds == {"tables", "external_tables", "views", "routines"}
Datasets == 1..NumDatasets

Prefix(n) == [i \in 1..n |-> i]
DatasetLists == {Prefix(n) : n \in 0..NumDatasets}
Range(s) == {s[i] : i \in 1..Len(s)}

RECURSIVE SumOver(_, _)
SumOver(s, f) == IF s = <<>> THEN 0 ELSE f[Head(s)] + SumOver(Tail(s), f)

\* ---- base.py: BigQueryBase.__init__ ----------------------------------------
\* the bucket name at the storage service: a bucket of the project, no bucket,
\* a bucket the caller may not read, or a name that is not found by the lookup
\* and refused by the creation
BucketStates == {"exists", "absent", "forbidden", "taken"}

\* storage_client.get_bucket(bucket_name)
get_bucket(b) ==
    CASE b = "exists" -> "found"
      [] b = "forbidden" -> "forbidden"
      [] OTHER -> "not_found"

\* storage_client.create_bucket(bucket_name, location=region)
create_bucket(b) == IF b = "absent" THEN "created" ELSE "conflict"

\* (variant: a Forbidden lookup handled like NotFound, self.bucket = None)
BigQueryBaseForbiddenAsMissing(b) ==
    IF get_bucket(b) = "found"
      THEN [calls |-> <<"get_bucket">>, bucket |-> b, exc |-> "none"]
    ELSE IF create_bucket(b) = "created"
      THEN [calls |-> <<"get_bucket", "create_bucket">>, bucket |-> "exists", exc |-> "none"]
    ELSE [calls |-> <<"get_bucket", "create_bucket">>, bucket |-> b, exc |-> "conflict"]

\* the constructor: the calls it makes, the bucket it leaves, what it raises.
\* NotFound of the lookup leaves self.bucket = None and the bucket is created;
\* Forbidden of the lookup and Conflict of the creation are logged and re-raised
BigQueryBase(b) ==
    IF get_bucket(b) = "found"
      THEN [calls |-> <<"get_bucket">>, bucket |-> b, exc |-> "none"]
    ELSE IF get_bucket(b) = "forbidden"
      THEN [calls |-> <<"get_bucket">>, bucket |-> b, exc |-> "forbidden"]
    ELSE IF create_bucket(b) = "created"
      THEN [calls |-> <<"get_bucket", "create_bucket">>, bucket |-> "exists", exc |-> "none"]
    ELSE [calls |-> <<"get_bucket", "create_bucket">>, bucket |-> b, exc |-> "conflict"]

\* where main goes when a constructor has returned
AfterInit ==
    IF pc = "init" THEN "main"
    ELSE IF mode = "export" THEN "snapshot" ELSE "find_config"

\* main: BigQueryBase(args.project_id, args.bucket_name, args.region) before
\* get_project_config ("init"), and BigQueryExporter(...) / BigQueryImporter(...)
\* inside the tqdm block ("construct"); an exception of the constructor is
\* logged by main and re-raised
BucketInit ==
    /\ pc \in {"init", "construct"}
    /\ LET base == BigQueryBase(bucket)
       IN /\ bucketCalls' = base.calls
          /\ bucket' = base.bucket
          /\ exc' = base.exc
          /\ pc' = IF base.exc = "none" THEN AfterInit ELSE "aborted"
    /\ UNCHANGED <<unitVars, sqOut, probe, mode, components, download, liveDatasets,
                   liveTables, configBlobs, storedTables, total, progress, config, di,
                   kind, busy, pool, failed, stage, sqRuns, last, completed>>

\* ---- main.py --------------------------------------------------------------
\* one task per dataset for each per-dataset kind, one per table, one for the
\* scheduled queries
count_tasks(datasets, comps, operation) ==
    (IF "routines" \in comps THEN Len(datasets) ELSE 0)
  + (IF "views" \in comps THEN Len(datasets) ELSE 0)
  + (IF "external_tables" \in comps THEN Len(datasets) ELSE 0)
  + (IF "tables" \in comps
       THEN SumOver(datasets, IF operation = "export" THEN liveTables ELSE storedTables)
       ELSE 0)
  + (IF "scheduled_queries" \in comps THEN 1 ELSE 0)

\* BigQueryBase.get_project_config: the datasets of the live project
get_project_config == liveDatasets

\* main: config = get_project_config(); total_tasks = count_tasks(config, ...),
\* which builds a BigQueryBase of its own on the bucket the first one left
MainCountTasks ==
    /\ pc = "main"
    /\ BigQueryBase(bucket).exc = "none"
    /\ bucketCalls' = BigQueryBase(bucket).calls
    /\ total' = count_tasks(get_project_config, components, mode)
    /\ pc' = "construct"
    /\ UNCHANGED <<unitVars, sqOut, probe, bucket, mode, components, download,
                   liveDatasets, liveTables, configBlobs, storedTables, progress, config,
                   di, kind, busy, exc, pool, failed, stage, sqRuns, last, completed>>

\* ---- concurrent.futures.ThreadPoolExecutor ---------------------------------
\* export_project opens one executor (0); import_project one per dataset (the
\* dataset id). The tasks of one executor differ only in their arguments, so an
\* executor is the numbers of its tasks in each state of a future.
Executors == 0..NumDatasets
EmptyPool == [submitted |-> 0, started |-> 0, returned |-> 0, raised |-> 0]

Queued(e) == pool[e].submitted - pool[e].started
Running(e) == pool[e].started - pool[e].returned - pool[e].raised
Unfinished(e) == pool[e].returned + pool[e].raised < pool[e].submitted

\* (variant: a pool that starts every submitted item at once)
CanStartUnbounded(e) == TRUE

\* a worker takes a work item only while fewer than max_workers items execute
CanStart(e) == Running(e) < MaxWorkers

\* executor.submit for each task of the sequence
Submitted(e, tasks) ==
    [pool EXCEPT ![e].submitted = @ + Len(tasks)]

\* a worker thread takes the oldest work item of the queue and calls it
TaskStart(e) ==
    /\ Queued(e) > 0
    /\ CanStart(e)
    /\ pool' = [pool EXCEPT ![e].started = @ + 1]
    /\ UNCHANGED <<unitVars, sqOut, probe, bucket, bucketCalls, mode, components,
                   download, liveDatasets, liveTables, configBlobs, storedTables, total,
                   progress, pc, config, di, kind, busy, exc, failed, stage, sqRuns,
                   last, completed>>

\* export_routines / export_views / export_external_tables / export_table /
\* import_table: the try body succeeds; finally: progress_bar.update(1)
TaskReturn(e) ==
    /\ Running(e) > 0
    /\ pool' = [pool EXCEPT ![e].returned = @ + 1]
    /\ progress' = progress + 1
    /\ UNCHANGED <<unitVars, sqOut, probe, bucket, bucketCalls, mode, components,
                   download, liveDatasets, liveTables, configBlobs, storedTables, total,
                   pc, config, di, kind, busy, exc, failed, stage, sqRuns, last,
                   completed>>

\* (variant: a task whose except branch re-raises, the exception is stored in
\* the future)
TaskFailRaises(e) ==
    /\ Running(e) > 0
    /\ pool' = [pool EXCEPT ![e].raised = @ + 1]
    /\ failed' = TRUE
    /\ progress' = progress + 1
    /\ UNCHANGED <<unitVars, sqOut, probe, bucket, bucketCalls, mode, components,
                   download, liveDatasets, liveTables, configBlobs, storedTables, total,
                   pc, config, di, kind, busy, exc, stage, sqRuns, last, completed>>

\* the same tasks when a call of the try body raises: except Exception logs the
\* error and does not re-raise; finally: progress_bar.update(1)
TaskFail(e) ==
    /\ Running(e) > 0
    /\ pool' = [pool EXCEPT ![e].returned = @ + 1]
    /\ failed' = TRUE
    /\ progress' = progress + 1
    /\ UNCHANGED <<unitVars, sqOut, probe, bucket, bucketCalls, mode, components,
                   download, liveDatasets, liveTables, configBlobs, storedTables, total,
                   pc, config, di, kind, busy, exc, stage, sqRuns, last, completed>>

\* the executor the orchestrating thread has open
OpenExecutor == IF mode = "export" THEN 0 ELSE config[di]

\* (variant: the executor shut down with cancel_futures=True, the queued work
\* items are dropped)
UnwindCancels ==
    /\ pc = "unwind"
    /\ Running(OpenExecutor) = 0
    /\ pc' = "aborted"
    /\ UNCHANGED <<unitVars, mode, components, download, liveDatasets, liveTables,
                   configBlobs, storedTables, total, progress, config, di, kind, busy,
                   exc, pool, failed, stage, sqRuns, last, completed, bucket,
                   bucketCalls, probe, sqOut>>

\* leaving the 'with ThreadPoolExecutor' block with an exception: __exit__ is
\* shutdown(wait=True), every submitted task still runs before the exception
\* goes on to main, which logs and re-raises it
Unwind ==
    /\ pc = "unwind"
    /\ ~Unfinished(OpenExecutor)
    /\ pc' = "aborted"
    /\ UNCHANGED <<unitVars, sqOut, probe, bucket, bucketCalls, mode, components,
                   download, liveDatasets, liveTables, configBlobs, storedTables, total,
                   progress, config, di, kind, busy, exc, pool, failed, stage, sqRuns,
                   last, completed>>

\* ---- exporter.py: export_project -------------------------------------------
\* the submit calls of one iteration of 'for dataset_id in config[datasets]'
\* that precede the table listing
KindTasks(d) ==
       (IF "routines" \in components THEN << <<"routines", d, 0>> >> ELSE <<>>)
    \o (IF "views" \in components THEN << <<"views", d, 0>> >> ELSE <<>>)
    \o (IF "external_tables" \in components THEN << <<"external_tables", d, 0>> >> ELSE <<>>)

\* one export_table / import_table task per table of the dataset
TableTasks(d, n) ==
    IF "tables" \in components THEN [i \in 1..n |-> <<"tables", d, i>>] ELSE <<>>

\* where export_project goes after the submit loop
AfterSubmit == IF "scheduled_queries" \in components THEN "scheduled_queries" ELSE "wait"

\* config = self.get_project_config(); self.save_to_gcs(..._config.json, config)
\* writes the blob; the executor is created
ExportSnapshot ==
    /\ pc = "snapshot"
    /\ config' = get_project_config
    /\ di' = 1
    /\ pc' = IF get_project_config = <<>> THEN AfterSubmit ELSE "submit"
    /\ configBlobs' = <<get_project_config>>
    /\ UNCHANGED <<unitVars, sqOut, probe, bucket, bucketCalls, mode, components,
                   download, liveDatasets, liveTables, storedTables, total, progress,
                   kind, busy, exc, pool, failed, stage, sqRuns, last, completed>>

\* list_datasets or the write of the config blob raises: nothing catches it
ExportSnapshotFails ==
    /\ pc = "snapshot"
    /\ exc' = "config"
    /\ pc' = "aborted"
    /\ UNCHANGED <<unitVars, sqOut, probe, bucket, bucketCalls, mode, components,
                   download, liveDatasets, liveTables, configBlobs, storedTables, total,
                   progress, config, di, kind, busy, pool, failed, stage, sqRuns, last,
                   completed>>

\* the dataset has a submitted task of each kind of the task sequence
MarkSubmitted(d, tasks) ==
    [stage EXCEPT ![d] = [k \in StageKinds |->
        IF \E i \in 1..Len(tasks) : tasks[i][1] = k THEN "submitted" ELSE @[k]]]

\* (variant: the loop goes over the datasets the project holds when the
\* iteration begins)
ExportSubmitLive ==
    /\ pc = "submit"
    /\ LET d == liveDatasets[di]
           tasks == KindTasks(d) \o TableTasks(d, liveTables[d])
       IN /\ pool' = Submitted(0, tasks)
          /\ stage' = MarkSubmitted(d, tasks)
    /\ di' = di + 1
    /\ pc' = IF di = Len(liveDatasets) THEN AfterSubmit ELSE "submit"
    /\ UNCHANGED <<unitVars, sqOut, probe, bucket, bucketCalls, mode, components,
                   download, liveDatasets, liveTables, configBlobs, storedTables, total,
                   progress, config, kind, busy, exc, failed, sqRuns, last, completed>>

\* one iteration of the submit loop
ExportSubmit ==
    /\ pc = "submit"
    /\ LET d == config[di]
           tasks == KindTasks(d) \o TableTasks(d, liveTables[d])
       IN /\ pool' = Submitted(0, tasks)
          /\ stage' = MarkSubmitted(d, tasks)
    /\ di' = di + 1
    /\ pc' = IF di = Len(config) THEN AfterSubmit ELSE "submit"
    /\ UNCHANGED <<unitVars, sqOut, probe, bucket, bucketCalls, mode, components,
                   download, liveDatasets, liveTables, configBlobs, storedTables, total,
                   progress, config, kind, busy, exc, failed, sqRuns, last, completed>>

\* an iteration in which bq_client.list_tables raises: the per-kind tasks of
\* the dataset are already submitted, the exception leaves the with block
ExportListTablesFails ==
    /\ pc = "submit"
    /\ "tables" \in components
    /\ LET tasks == KindTasks(config[di])
       IN /\ pool' = Submitted(0, tasks)
          /\ stage' = MarkSubmitted(config[di], tasks)
    /\ exc' = "list_tables"
    /\ pc' = "unwind"
    /\ UNCHANGED <<unitVars, sqOut, probe, bucket, bucketCalls, mode, components,
                   download, liveDatasets, liveTables, configBlobs, storedTables, total,
                   progress, config, di, kind, busy, failed, sqRuns, last, completed>>

\* the locations a dataset of the project may have
RegionNames == {"europe-north1", "asia-east1"}
\* fallback_regions of get_all_regions
FallbackRegions == {"US", "EU", "europe-north1"}

\* the sets of locations get_all_regions can collect from the datasets
DetectedRegionSets ==
    {r \in SUBSET RegionNames :
        /\ Cardinality(r) <= Len(liveDatasets)
        /\ liveDatasets # <<>> => r # {}}

\* export_scheduled_queries has not returned
NoSq == [enumFailed |-> FALSE, regions |-> {}, written |-> FALSE]

\* (variant: no region when the enumeration fails)
get_all_regions_no_fallback(detected, enumFailed) ==
    IF enumFailed THEN {} ELSE detected

\* get_all_regions: the locations of the datasets, or the fallback regions
\* when list_datasets or a get_dataset raises
get_all_regions(detected, enumFailed) ==
    IF enumFailed THEN FallbackRegions ELSE detected

\* the runs of get_all_regions: what it found, or that it failed
RegionRuns ==
    {[enumFailed |-> FALSE, regions |-> get_all_regions(r, FALSE)] : r \in DetectedRegionSets}
    \cup {[enumFailed |-> TRUE, regions |-> get_all_regions({}, TRUE)]}

\* self.export_scheduled_queries() is entered on the orchestrating thread
ExportScheduledQueriesBegin ==
    /\ pc = "scheduled_queries"
    /\ mode = "export"
    /\ ~busy
    /\ busy' = TRUE
    /\ sqRuns' = sqRuns + 1
    /\ UNCHANGED <<unitVars, sqOut, probe, bucket, bucketCalls, mode, components,
                   download, liveDatasets, liveTables, configBlobs, storedTables, total,
                   progress, pc, config, di, kind, exc, pool, failed, stage, last,
                   completed>>

\* export_scheduled_queries returns: regions listed (or the fallback taken),
\* per-region errors logged inside the loop, scheduled_queries.json written;
\* finally: progress_bar.update(1)
ExportScheduledQueriesEnd ==
    /\ pc = "scheduled_queries"
    /\ mode = "export"
    /\ busy
    /\ busy' = FALSE
    /\ progress' = progress + 1
    /\ pc' = "wait"
    /\ \E r \in RegionRuns :
          sqOut' = [enumFailed |-> r.enumFailed, regions |-> r.regions, written |-> TRUE]
    /\ UNCHANGED <<unitVars, probe, bucket, bucketCalls, mode, components, download,
                   liveDatasets, liveTables, configBlobs, storedTables, total, config,
                   di, kind, exc, pool, failed, stage, sqRuns, last, completed>>

\* export_scheduled_queries when the write of scheduled_queries.json (or
\* anything else outside the per-region try) raises: the outer except logs and
\* re-raises, finally: progress_bar.update(1); the exception leaves the with
\* block of export_project
ExportScheduledQueriesFails ==
    /\ pc = "scheduled_queries"
    /\ mode = "export"
    /\ busy
    /\ busy' = FALSE
    /\ progress' = progress + 1
    /\ exc' = "scheduled_queries"
    /\ pc' = "unwind"
    /\ \E r \in RegionRuns :
          sqOut' = [enumFailed |-> r.enumFailed, regions |-> r.regions, written |-> FALSE]
    /\ UNCHANGED <<unitVars, probe, bucket, bucketCalls, mode, components, download,
                   liveDatasets, liveTables, configBlobs, storedTables, total, config,
                   di, kind, pool, failed, stage, sqRuns, last, completed>>

\* (variant: the with block left without waiting for the futures)
ExportDrainNoWait ==
    /\ pc = "wait"
    /\ completed' = TRUE
    /\ pc' = IF download THEN "download" ELSE "done"
    /\ UNCHANGED <<unitVars, mode, components, download, liveDatasets, liveTables,
                   configBlobs, storedTables, total, progress, config, di, kind, busy,
                   exc, pool, failed, stage, sqRuns, last, bucket, bucketCalls, probe,
                   sqOut>>

\* the as_completed loop (an exception of future.result() is caught and
\* logged), the end of the with block, and the "Export ... completed" log line
ExportDrain ==
    /\ pc = "wait"
    /\ ~Unfinished(0)
    /\ completed' = TRUE
    /\ pc' = IF download THEN "download" ELSE "done"
    /\ UNCHANGED <<unitVars, sqOut, probe, bucket, bucketCalls, mode, components,
                   download, liveDatasets, liveTables, configBlobs, storedTables, total,
                   progress, config, di, kind, busy, exc, pool, failed, stage, sqRuns,
                   last>>

\* download_all_project_objects: every blob downloaded
ExportDownload ==
    /\ pc = "download"
    /\ pc' = "done"
    /\ UNCHANGED <<unitVars, sqOut, probe, bucket, bucketCalls, mode, components,
                   download, liveDatasets, liveTables, configBlobs, storedTables, total,
                   progress, config, di, kind, busy, exc, pool, failed, stage, sqRuns,
                   last, completed>>

\* download_all_project_objects: a download raises, future.result() re-raises
ExportDownloadFails ==
    /\ pc = "download"
    /\ exc' = "download"
    /\ pc' = "aborted"
    /\ UNCHANGED <<unitVars, sqOut, probe, bucket, bucketCalls, mode, components,
                   download, liveDatasets, liveTables, configBlobs, storedTables, total,
                   progress, config, di, kind, busy, pool, failed, stage, sqRuns, last,
                   completed>>

\* ---- importer.py: import_project --------------------------------------------
\* no sequential task has just returned
NoTask == [kind |-> "none", ds |-> 0, readFailed |-> FALSE, objects |-> 0,
           firstFailed |-> 0, attempted |-> 0]

\* (variant: the external tables imported before the table loads)
StageOrderSwapped == <<"external_tables", "tables", "views", "routines">>

\* the order of the 'if ... in components' blocks of one dataset iteration
StageOrder == <<"tables", "external_tables", "views", "routines">>
StageIndex(k) == CHOOSE j \in 1..Len(StageOrder) : StageOrder[j] = k
Min(S) == CHOOSE x \in S : \A y \in S : x <= y

\* (variant: import_scheduled_queries called inside the dataset loop)
NextPositionSqInLoop(cfg, i, k0) ==
    LET rest == {j \in (k0 + 1)..Len(StageOrder) : StageOrder[j] \in components}
    IN IF i >= 1 /\ i <= Len(cfg) /\ rest # {}
         THEN [pc |-> "stage", kind |-> StageOrder[Min(rest)], di |-> i]
       ELSE IF "scheduled_queries" \in components /\ i >= 1
         THEN [pc |-> "stage", kind |-> "scheduled_queries", di |-> i]
       ELSE IF i < Len(cfg)
         THEN [pc |-> "ensure", kind |-> "none", di |-> i + 1]
       ELSE [pc |-> "finish", kind |-> "none", di |-> i]

\* where import_project goes after stage number k0 (0: the dataset probe) of
\* the dataset cfg[i]: the next selected stage of the dataset, else the next
\* dataset, else the scheduled queries, else the end
NextPosition(cfg, i, k0) ==
    LET rest == {j \in (k0 + 1)..Len(StageOrder) : StageOrder[j] \in components}
    IN IF i >= 1 /\ i <= Len(cfg) /\ rest # {}
         THEN [pc |-> "stage", kind |-> StageOrder[Min(rest)], di |-> i]
       ELSE IF i < Len(cfg)
         THEN [pc |-> "ensure", kind |-> "none", di |-> i + 1]
       ELSE IF "scheduled_queries" \in components
         THEN [pc |-> "stage", kind |-> "scheduled_queries", di |-> i]
       ELSE [pc |-> "finish", kind |-> "none", di |-> i]

\* the loop over bucket.list_blobs(): the first blob whose name ends with
\* '_config.json' (0: none)
config_file_name == IF configBlobs = <<>> THEN 0 ELSE 1

\* the config lookup: FileNotFoundError without a config blob, else
\* config = read_from_gcs(config_file_name)
ImportFindConfig ==
    /\ pc = "find_config"
    /\ IF config_file_name = 0
         THEN /\ exc' = "no_config"
              /\ pc' = "aborted"
              /\ UNCHANGED <<config, di, kind>>
         ELSE LET cfg == configBlobs[config_file_name]
                  nxt == NextPosition(cfg, 0, Len(StageOrder))
              IN /\ config' = cfg
                 /\ pc' = nxt.pc
                 /\ di' = nxt.di
                 /\ kind' = nxt.kind
                 /\ UNCHANGED exc
    /\ UNCHANGED <<unitVars, sqOut, probe, bucket, bucketCalls, mode, components,
                   download, liveDatasets, liveTables, configBlobs, storedTables, total,
                   progress, busy, pool, failed, stage, sqRuns, last, completed>>

\* a storage call outside every try raises: bucket.list_blobs() or the read of
\* the config blob, or list_blobs(prefix) of the tables stage
ImportStorageFails ==
    /\ mode = "import"
    /\ pc = "find_config" \/ (pc = "stage" /\ kind = "tables" /\ ~busy)
    /\ exc' = "storage"
    /\ pc' = "aborted"
    /\ UNCHANGED <<unitVars, sqOut, probe, bucket, bucketCalls, mode, components,
                   download, liveDatasets, liveTables, configBlobs, storedTables, total,
                   progress, config, di, kind, busy, pool, failed, stage, sqRuns, last,
                   completed>>

\* no dataset has been probed since the last stage began
NoProbe == [ds |-> 0, get_dataset |-> "none", create_dataset |-> "none"]

\* bq_client.get_dataset(dataset_id) when it answers: the dataset, or NotFound
get_dataset(live, d) == IF d \in Range(live) THEN "found" ELSE "not_found"

\* (variant: create_dataset called without the probe)
ensure_dataset_unprobed(live, d) ==
    [datasets |-> Append(live, d), create_dataset |-> "created"]

\* try: get_dataset / except NotFound: create_dataset, when both calls answer:
\* the datasets of the project afterwards, and whether create_dataset was called
ensure_dataset(live, d) ==
    IF get_dataset(live, d) = "found"
      THEN [datasets |-> live, create_dataset |-> "none"]
      ELSE [datasets |-> Append(live, d), create_dataset |-> "created"]

\* get_dataset succeeds, or raises NotFound and create_dataset succeeds
ImportEnsureDataset ==
    /\ pc = "ensure"
    /\ LET d == config[di]
           nxt == NextPosition(config, di, 0)
           ens == ensure_dataset(liveDatasets, d)
       IN /\ liveDatasets' = ens.datasets
          /\ probe' = [ds |-> d, get_dataset |-> get_dataset(liveDatasets, d),
                       create_dataset |-> ens.create_dataset]
          /\ pc' = nxt.pc
          /\ di' = nxt.di
          /\ kind' = nxt.kind
    /\ last' = NoTask
    /\ UNCHANGED <<unitVars, sqOut, bucket, bucketCalls, mode, components, download,
                   liveTables, configBlobs, storedTables, total, progress, config, busy,
                   exc, pool, failed, stage, sqRuns, completed>>

\* (variant: any exception of get_dataset but NotFound taken as "exists")
ImportProbeFailsAsExists ==
    /\ pc = "ensure"
    /\ probe' = [ds |-> config[di], get_dataset |-> "error", create_dataset |-> "none"]
    /\ LET nxt == NextPosition(config, di, 0)
       IN /\ pc' = nxt.pc
          /\ di' = nxt.di
          /\ kind' = nxt.kind
    /\ UNCHANGED <<unitVars, sqOut, bucket, bucketCalls, mode, components, download,
                   liveDatasets, liveTables, configBlobs, storedTables, total, progress,
                   config, busy, exc, pool, failed, stage, sqRuns, last, completed>>

\* get_dataset raises something else than NotFound: nothing catches it
ImportProbeFails ==
    /\ pc = "ensure"
    /\ exc' = "get_dataset"
    /\ pc' = "aborted"
    /\ probe' = [ds |-> config[di], get_dataset |-> "error", create_dataset |-> "none"]
    /\ UNCHANGED <<unitVars, sqOut, bucket, bucketCalls, mode, components, download,
                   liveDatasets, liveTables, configBlobs, storedTables, total, progress,
                   config, di, kind, busy, pool, failed, stage, sqRuns, last, completed>>

\* get_dataset raises NotFound and create_dataset raises: nothing catches it
ImportCreateDatasetFails ==
    /\ pc = "ensure"
    /\ config[di] \notin Range(liveDatasets)
    /\ exc' = "create_dataset"
    /\ pc' = "aborted"
    /\ probe' = [ds |-> config[di], get_dataset |-> "not_found", create_dataset |-> "raised"]
    /\ UNCHANGED <<unitVars, sqOut, bucket, bucketCalls, mode, components, download,
                   liveDatasets, liveTables, configBlobs, storedTables, total, progress,
                   config, di, kind, busy, pool, failed, stage, sqRuns, last, completed>>

\* the tables stage: table ids from the parquet blobs under the dataset's
\* prefix, a new executor, one import_table submitted per table id
ImportSubmitTables ==
    /\ pc = "stage"
    /\ kind = "tables"
    /\ ~busy
    /\ LET tasks == TableTasks(config[di], storedTables[config[di]])
       IN pool' = Submitted(config[di], tasks)
    /\ busy' = TRUE
    /\ stage' = [stage EXCEPT ![config[di]]["tables"] = "running"]
    /\ last' = NoTask
    /\ probe' = NoProbe
    /\ UNCHANGED <<unitVars, sqOut, bucket, bucketCalls, mode, components, download,
                   liveDatasets, liveTables, configBlobs, storedTables, total, progress,
                   pc, config, di, kind, exc, failed, sqRuns, completed>>

\* (variant: the tables stage left without waiting for the futures)
ImportDrainNoWait ==
    /\ pc = "stage"
    /\ kind = "tables"
    /\ busy
    /\ LET nxt == NextPosition(config, di, StageIndex("tables"))
       IN /\ pc' = nxt.pc
          /\ di' = nxt.di
          /\ kind' = nxt.kind
    /\ stage' = [stage EXCEPT ![config[di]]["tables"] = "finished"]
    /\ busy' = FALSE
    /\ UNCHANGED <<unitVars, sqOut, probe, bucket, bucketCalls, mode, components,
                   download, liveDatasets, liveTables, configBlobs, storedTables, total,
                   progress, config, exc, pool, failed, sqRuns, last, completed>>

\* 'for future in as_completed(futures): future.result()' and the end of the
\* with block: a raising future ends the loop, else all futures are awaited
ImportDrain ==
    /\ pc = "stage"
    /\ kind = "tables"
    /\ busy
    /\ IF pool[config[di]].raised > 0
         THEN /\ exc' = "future"
              /\ pc' = "unwind"
              /\ UNCHANGED <<di, kind, stage>>
         ELSE /\ ~Unfinished(config[di])
              /\ LET nxt == NextPosition(config, di, StageIndex("tables"))
                 IN /\ pc' = nxt.pc
                    /\ di' = nxt.di
                    /\ kind' = nxt.kind
              /\ stage' = [stage EXCEPT ![config[di]]["tables"] = "finished"]
              /\ UNCHANGED exc
    /\ busy' = FALSE
    /\ UNCHANGED <<unitVars, sqOut, probe, bucket, bucketCalls, mode, components,
                   download, liveDatasets, liveTables, configBlobs, storedTables, total,
                   progress, config, pool, failed, sqRuns, last, completed>>

\* ---- importer.py: the sequential tasks --------------------------------------
\* What a task did with the n records of its blob: firstFailed is the index of
\* the first record whose construction or create call raised (0: none),
\* attempted the number of records the loop reached.
\* a loop whose body has no try of its own: the first exception leaves the loop
PlainLoop(n) ==
    {[readFailed |-> FALSE, objects |-> n, firstFailed |-> 0, attempted |-> n]}
    \cup {[readFailed |-> FALSE, objects |-> n, firstFailed |-> f, attempted |-> f] :
            f \in 1..n}

\* a loop whose body is a try/except: every record is reached
GuardedLoop(n) ==
    {[readFailed |-> FALSE, objects |-> n, firstFailed |-> f, attempted |-> n] :
        f \in 0..n}

\* read_from_gcs raises: the loop is not entered
ReadFails == [readFailed |-> TRUE, objects |-> 0, firstFailed |-> 0, attempted |-> 0]

import_routines(n) == PlainLoop(n)
\* (variant: import_views without the try around each view)
import_views_unguarded(n) == PlainLoop(n)
import_views(n) == GuardedLoop(n)
import_external_tables(n) == PlainLoop(n)
import_scheduled_queries(n) == PlainLoop(n)

\* the outcomes of a sequential task whose blob holds n records
ImportOutcomes(k, n) ==
    {ReadFails} \cup
    (CASE k = "routines" -> import_routines(n)
       [] k = "views" -> import_views(n)
       [] k = "external_tables" -> import_external_tables(n)
       [] k = "scheduled_queries" -> import_scheduled_queries(n))

SequentialKinds == {"external_tables", "views", "routines", "scheduled_queries"}

\* where import_project goes after the sequential task of kind k
AfterTask(k) ==
    IF k = "scheduled_queries" THEN [pc |-> "finish", kind |-> "none", di |-> di]
    ELSE NextPosition(config, di, StageIndex(k))

\* import_external_tables / import_views / import_routines /
\* import_scheduled_queries is called on the orchestrating thread
ImportTaskBegin ==
    /\ pc = "stage"
    /\ kind \in SequentialKinds
    /\ ~busy
    /\ busy' = TRUE
    /\ stage' = IF kind \in StageKinds
                  THEN [stage EXCEPT ![config[di]][kind] = "running"] ELSE stage
    /\ sqRuns' = IF kind = "scheduled_queries" THEN sqRuns + 1 ELSE sqRuns
    /\ last' = NoTask
    /\ probe' = NoProbe
    /\ UNCHANGED <<unitVars, sqOut, bucket, bucketCalls, mode, components, download,
                   liveDatasets, liveTables, configBlobs, storedTables, total, progress,
                   pc, config, di, kind, exc, pool, failed, completed>>

\* the task returns: whatever was raised inside was caught and logged;
\* finally: progress_bar.update(1)
ImportTaskEnd ==
    /\ pc = "stage"
    /\ kind \in SequentialKinds
    /\ busy
    /\ \E n \in 0..MaxObjects : \E o \in ImportOutcomes(kind, n) :
          last' = [kind |-> kind, ds |-> IF kind \in StageKinds THEN config[di] ELSE 0,
                   readFailed |-> o.readFailed, objects |-> o.objects,
                   firstFailed |-> o.firstFailed, attempted |-> o.attempted]
    /\ progress' = progress + 1
    /\ busy' = FALSE
    /\ stage' = IF kind \in StageKinds
                  THEN [stage EXCEPT ![config[di]][kind] = "finished"] ELSE stage
    /\ LET nxt == AfterTask(kind)
       IN /\ pc' = nxt.pc
          /\ di' = nxt.di
          /\ kind' = nxt.kind
    /\ UNCHANGED <<unitVars, sqOut, probe, bucket, bucketCalls, mode, components,
                   download, liveDatasets, liveTables, configBlobs, storedTables, total,
                   config, exc, pool, failed, sqRuns, completed>>

\* logging.info("Import of project ... completed")
ImportFinish ==
    /\ pc = "finish"
    /\ completed' = TRUE
    /\ pc' = "done"
    /\ last' = NoTask
    /\ probe' = NoProbe
    /\ UNCHANGED <<unitVars, sqOut, bucket, bucketCalls, mode, components, download,
                   liveDatasets, liveTables, configBlobs, storedTables, total, progress,
                   config, di, kind, busy, exc, pool, failed, stage, sqRuns>>

\* ---- the runs ----------------------------------------------------------------
NoTables == [d \in Datasets |-> 0]
\* the config blobs of the bucket: none, one holding any dataset list, or
\* several, the first listed holding every dataset and the others none
ConfigBlobSets ==
    {<<>>} \cup {<<c>> : c \in DatasetLists}
           \cup {[i \in 1..n |-> IF i = 1 THEN Prefix(NumDatasets) ELSE <<>>] :
                    n \in 2..MaxConfigBlobs}

\* the table counts of the datasets ds the run lists the tables of (a run that
\* does not select 'tables' lists none)
TableCounts(ds) ==
    IF "tables" \in components
      THEN {f \in [Datasets -> 0..MaxTables] : \A d \in Datasets \ ds : f[d] = 0}
      ELSE {NoTables}

\* no thread is inside progress_bar.update
Threads == 0..NumUpdaters
CounterIdle ==
    /\ bar_n = 0
    /\ upc = [t \in Threads |-> "off"]
    /\ reg = [t \in Threads |-> 0]

\* no export_routines task is looked at
NoBlob == [written |-> FALSE, data |-> <<>>]
RoutinesIdle ==
    /\ routines = <<>>
    /\ ri = 0
    /\ serialized_routines = <<>>
    /\ routinesBlob = NoBlob
    /\ rpc = "off"
    /\ rexc = "none"

\* the scenarios of single operations are not running
\* no blob name is looked at
BlobsIdle ==
    /\ project_id = ""
    /\ writers = <<>>
    /\ blobs = <<>>

\* no text is looked at
NoText == [state |-> "pending", text |-> <<>>]
TextIdle ==
    /\ textKind = "none"
    /\ srcText = <<>>
    /\ persisted = NoText

\* no object is taken through storage
TripIdle ==
    /\ exported = <<>>
    /\ blobRecord = <<>>
    /\ rebuilt = <<>>
    /\ rtpc = "off"

\* count_tasks is not looked at
CountIdle ==
    /\ listing = <<>>
    /\ stored = <<>>
    /\ bucketNames = {}
    /\ counted = -1

\* no single task is looked at
TaskIdle ==
    /\ fn = "none"
    /\ steps = <<>>
    /\ tpos = 0
    /\ tstate = "off"
    /\ terrs = 0
    /\ extract = "none"
    /\ schemaWritten = FALSE

\* no export_scheduled_queries task is looked at
RegionsIdle ==
    /\ regionList = <<>>
    /\ transfers = <<>>
    /\ rgi = 0
    /\ qi = 0
    /\ all_queries = <<>>
    /\ sqBlob = NoBlob
    /\ sqpc = "off"

UnitsIdle ==
    /\ CounterIdle /\ RoutinesIdle /\ BlobsIdle /\ TextIdle
    /\ TripIdle /\ CountIdle /\ TaskIdle /\ RegionsIdle

\* the state when main() has parsed its arguments
InitRun ==
    /\ total = 0
    /\ progress = 0
    /\ pc = "init"
    /\ bucketCalls = <<>>
    /\ probe = NoProbe
    /\ sqOut = NoSq
    /\ config = <<>>
    /\ di = 0
    /\ kind = "none"
    /\ busy = FALSE
    /\ exc = "none"
    /\ pool = [e \in Executors |-> EmptyPool]
    /\ failed = FALSE
    /\ stage = [d \in Datasets |-> [k \in StageKinds |-> "idle"]]
    /\ sqRuns = 0
    /\ last = NoTask
    /\ completed = FALSE

\* args.components or all five kinds: nargs='+' admits no empty list
ComponentSets == (SUBSET Kinds) \ {{}}

Init ==
    /\ mode \in Modes
    /\ bucket \in BucketStates
    /\ components \in ComponentSets
    /\ liveDatasets \in DatasetLists
    /\ IF mode = "export"
         THEN /\ download \in BOOLEAN
              /\ liveTables \in TableCounts(Range(liveDatasets))
              /\ configBlobs = <<>>
              /\ storedTables = NoTables
         ELSE /\ download = FALSE
              /\ liveTables = NoTables
              /\ configBlobs \in ConfigBlobSets
              /\ storedTables \in TableCounts(Range(liveDatasets) \cup
                                                (IF configBlobs = <<>> THEN {}
                                                 ELSE Range(configBlobs[1])))
    /\ InitRun
    /\ UnitsIdle

Next ==
    \/ BucketInit
    \/ MainCountTasks
    \/ \E e \in Executors : TaskStart(e)
    \/ \E e \in Executors : TaskReturn(e)
    \/ \E e \in Executors : TaskFail(e)
    \/ Unwind
    \/ ExportSnapshot
    \/ ExportSnapshotFails
    \/ ExportSubmit
    \/ ExportListTablesFails
    \/ ExportScheduledQueriesBegin
    \/ ExportScheduledQueriesEnd
    \/ ExportScheduledQueriesFails
    \/ ExportDrain
    \/ ExportDownload
    \/ ExportDownloadFails
    \/ ImportFindConfig
    \/ ImportStorageFails
    \/ ImportEnsureDataset
    \/ ImportProbeFails
    \/ ImportCreateDatasetFails
    \/ ImportSubmitTables
    \/ ImportDrain
    \/ ImportTaskBegin
    \/ ImportTaskEnd
    \/ ImportFinish

Spec == Init /\ [][Next]_vars

\* Runs that saturate the pool: one dataset holding LoadTables tables, every
\* component selected.
InitLoad ==
    /\ mode \in Modes
    /\ bucket \in {"exists", "absent"}
    /\ components = Kinds
    /\ liveDatasets \in {<<>>, <<1>>}
    /\ IF mode = "export"
         THEN /\ download \in BOOLEAN
              /\ liveTables = [d \in Datasets |-> IF d = 1 THEN LoadTables ELSE 0]
              /\ configBlobs = <<>>
              /\ storedTables = NoTables
         ELSE /\ download = FALSE
              /\ liveTables = NoTables
              /\ configBlobs \in {<<>>, << <<1>> >>}
              /\ storedTables = [d \in Datasets |-> IF d = 1 THEN LoadTables ELSE 0]
    /\ InitRun
    /\ UnitsIdle

SpecLoad == InitLoad /\ [][Next]_vars

\* ---- the project changes while the run goes on -------------------------------------
\* someone creates the next dataset in the project while the run, which has
\* its config, goes through the datasets
EnvCreateDataset ==
    /\ pc \in {"submit", "scheduled_queries", "ensure", "stage"}
    /\ Len(liveDatasets) < NumDatasets
    /\ liveDatasets' = Append(liveDatasets, Len(liveDatasets) + 1)
    /\ UNCHANGED <<unitVars, sqOut, probe, bucket, bucketCalls, mode, components,
                   download, liveTables, configBlobs, storedTables, total, progress, pc,
                   config, di, kind, busy, exc, pool, failed, stage, sqRuns, last,
                   completed>>

NextDrift ==
    \/ Next
    \/ EnvCreateDataset

\* the runs on a project that can still get a dataset
InitDrift == Init /\ Len(liveDatasets) < NumDatasets
SpecDrift == InitDrift /\ [][NextDrift]_vars

\* The runs in which every thread keeps running and every call to the
\* warehouse, the bucket or the transfer service returns or raises: a step
\* that can be taken is taken.
\* The component selections of these runs: everything, the pooled tasks of an
\* import with the scheduled queries, one sequential kind.
LiveComponentSets == {Kinds, {"tables", "scheduled_queries"}, {"views"}}
InitLive == Init /\ components \in LiveComponentSets
SpecLive == InitLive /\ [][Next]_vars /\ WF_vars(Next)

\* ---- progress_bar.update(1) from several threads ---------------------------------
\* Every task ends with 'finally: self.progress_bar.update(1)'. The pooled tasks
\* run it on worker threads (1..NumUpdaters), export_scheduled_queries and the
\* sequential import tasks on the orchestrating thread (0). No lock is taken
\* around the call, and update adds to the attribute n of the bar with
\* 'self.n += n': a load of the attribute, then a store of the sum.
\* the run outside this scenario: nothing of main() is looked at
RunIdle ==
    /\ bucket = "exists"
    /\ components = Kinds
    /\ download = FALSE
    /\ liveDatasets = <<>>
    /\ liveTables = NoTables
    /\ configBlobs = <<>>
    /\ storedTables = NoTables
    /\ InitRun

\* the thread has loaded progress_bar.n. In an export the orchestrating thread
\* is inside export_scheduled_queries while the workers run; in an import it
\* runs its own tasks when the table loads have been awaited.
UpdateLoad(t) ==
    /\ upc[t] = "task"
    /\ t = 0 /\ mode = "import" => \A w \in Threads \ {0} : upc[w] \in {"off", "done"}
    /\ reg' = [reg EXCEPT ![t] = bar_n]
    /\ upc' = [upc EXCEPT ![t] = "loaded"]
    /\ UNCHANGED <<runVars, regionVars, taskVars, countVars, tripVars, textVars, routineVars,
                   blobVars, bar_n>>

\* the thread stores the loaded value plus one
UpdateStore(t) ==
    /\ upc[t] = "loaded"
    /\ bar_n' = reg[t] + 1
    /\ upc' = [upc EXCEPT ![t] = "done"]
    /\ UNCHANGED <<runVars, regionVars, taskVars, countVars, tripVars, textVars, routineVars,
                   blobVars, reg>>

\* some pooled tasks are executing, the orchestrating thread has a task of its
\* own or not
InitCounter ==
    /\ mode \in Modes
    /\ RunIdle
    /\ RegionsIdle
    /\ TaskIdle
    /\ CountIdle
    /\ TripIdle
    /\ TextIdle
    /\ RoutinesIdle
    /\ BlobsIdle
    /\ bar_n = 0
    /\ reg = [t \in Threads |-> 0]
    /\ \E k \in 1..NumUpdaters : \E own \in {"task", "off"} :
          upc = [t \in Threads |-> IF t = 0 THEN own
                                   ELSE IF t <= k THEN "task" ELSE "off"]

NextCounter ==
    \/ \E t \in Threads : UpdateLoad(t)
    \/ \E t \in Threads : UpdateStore(t)

SpecCounter == InitCounter /\ [][NextCounter]_vars

\* ---- exporter.py: export_routines, routine by routine ------------------------------
\* A routine body as get_routine returns it: None when the routine has no
\* definitionBody, else a text. A text is the sequence of its characters; the
\* exporting project is "p", so f"{self.project_id}." is the two characters
\* of Qualifier.
Absent == [absent |-> TRUE, text |-> <<>>]
Text(t) == [absent |-> FALSE, text |-> t]
Bodies == {Absent, Text(<<>>), Text(<<"f">>), Text(<<"p", ".", "f">>)}
BodyLists == UNION {[1..n -> Bodies] : n \in 0..MaxObjects}

Qualifier == <<"p", ".">>

\* str.startswith
StartsWith(t, q) == Len(t) >= Len(q) /\ SubSeq(t, 1, Len(q)) = q

\* str.replace(f"{self.project_id}.", ""): one scan from the left; where the
\* qualifier starts it is dropped and the scan goes on behind it, any other
\* character is copied
RECURSIVE replace(_)
replace(t) ==
    IF t = <<>> THEN <<>>
    ELSE IF StartsWith(t, Qualifier)
           THEN replace(SubSeq(t, Len(Qualifier) + 1, Len(t)))
    ELSE <<Head(t)>> \o replace(Tail(t))

\* 'if not routine_ref.body': None and the empty text are false
Falsy(body) == body.absent \/ body.text = <<>>

\* everything of the run but the number of progress updates
runRest == <<mode, components, download, liveDatasets, liveTables, configBlobs,
             storedTables, total, pc, config, di, kind, busy, exc, pool, failed,
             stage, sqRuns, last, completed, bucket, bucketCalls, probe, sqOut>>

\* one iteration of 'for routine in routines': routine_ref.body.replace(...)
\* comes first and raises AttributeError on None, which the except branch of
\* the task logs (finally: progress_bar.update(1)); then a routine whose body
\* is false is skipped, any other is serialized with the replaced body
RoutineStep ==
    /\ rpc = "loop"
    /\ ri <= Len(routines)
    /\ LET body == routines[ri]
       IN IF body.absent
            THEN /\ rpc' = "raised"
                 /\ rexc' = "AttributeError"
                 /\ progress' = progress + 1
                 /\ UNCHANGED <<ri, serialized_routines>>
            ELSE /\ serialized_routines' =
                        IF Falsy(body) THEN serialized_routines
                        ELSE Append(serialized_routines, replace(body.text))
                 /\ ri' = ri + 1
                 /\ UNCHANGED <<rpc, rexc, progress>>
    /\ UNCHANGED <<runRest, regionVars, taskVars, countVars, tripVars, textVars, counterVars,
                   blobVars, routines, routinesBlob>>

\* after the loop: save_to_gcs(f"{dataset_id}_routines.json", ...), the count
\* is logged; finally: progress_bar.update(1)
RoutinesSave ==
    /\ rpc = "loop"
    /\ ri > Len(routines)
    /\ routinesBlob' = [written |-> TRUE, data |-> serialized_routines]
    /\ rpc' = "saved"
    /\ progress' = progress + 1
    /\ UNCHANGED <<runRest, regionVars, taskVars, countVars, tripVars, textVars, counterVars,
                   blobVars, routines, ri, serialized_routines, rexc>>

\* get_routine of the iteration, or save_to_gcs after the loop, raises: the
\* except branch logs; finally: progress_bar.update(1)
RoutineCallFails ==
    /\ rpc = "loop"
    /\ rpc' = "raised"
    /\ rexc' = "call"
    /\ progress' = progress + 1
    /\ UNCHANGED <<runRest, regionVars, taskVars, countVars, tripVars, textVars, counterVars,
                   blobVars, routines, ri, serialized_routines, routinesBlob>>

\* export_routines has listed the routines of a dataset (list_routines raising
\* leaves the task at once, with nothing written)
InitRoutines ==
    /\ mode = "export"
    /\ RunIdle
    /\ RegionsIdle
    /\ TaskIdle
    /\ CountIdle
    /\ TripIdle
    /\ TextIdle
    /\ CounterIdle
    /\ BlobsIdle
    /\ routines \in BodyLists
    /\ ri = 1
    /\ serialized_routines = <<>>
    /\ routinesBlob = NoBlob
    /\ rpc \in {"loop", "raised"}
    /\ rexc = IF rpc = "raised" THEN "call" ELSE "none"

NextRoutines ==
    \/ RoutineStep
    \/ RoutinesSave
    \/ RoutineCallFails

SpecRoutines == InitRoutines /\ [][NextRoutines]_vars

\* ---- exporter.py: the blob names of an export ------------------------------------
\* Names are strings and are built as the f-strings build them. Project ids
\* are lower-case letters, digits and hyphens; dataset ids letters, digits and
\* underscores; table ids have no '/' and no '.'.
ProjectIds == {"p", "a", "scheduled"}
DatasetIds == {"a", "a_b", "a_external", "scheduled"}
TableIds == {"t", "t_schema", "b", "a_b"}
\* the files an extract job writes for the wildcard of its destination
Shards == {"000000000000.parquet", "000000000001.parquet"}

\* the tasks of an export run: the config write, one task per dataset for each
\* per-dataset kind, one per table, the scheduled-query task
ExportTasks ==
    {[kind |-> "config", dataset_id |-> "", table_id |-> ""],
     [kind |-> "scheduled_queries", dataset_id |-> "", table_id |-> ""]}
    \cup {[kind |-> k, dataset_id |-> d, table_id |-> ""] :
             k \in {"routines", "views", "external_tables"}, d \in DatasetIds}
    \cup {[kind |-> "tables", dataset_id |-> d, table_id |-> t] :
             d \in DatasetIds, t \in TableIds}

\* (variant: the schema blob named by the table id alone)
export_table_flat(dataset_id, table_id) ==
    {dataset_id \o "/" \o table_id \o "/" \o f : f \in Shards}
    \cup {table_id \o "_schema.json"}

\* export_table: destination_uri gs://{bucket}/{dataset_id}/{table_id}/*.parquet
\* of the extract job, then schema_file = f"{dataset_id}/{table_id}_schema.json"
export_table(dataset_id, table_id) ==
    {dataset_id \o "/" \o table_id \o "/" \o f : f \in Shards}
    \cup {dataset_id \o "/" \o table_id \o "_schema.json"}

\* the blob names a task writes when all its calls succeed
BlobNames(project, task) ==
    CASE task.kind = "config" -> {project \o "_config.json"}
      [] task.kind = "routines" -> {task.dataset_id \o "_routines.json"}
      [] task.kind = "views" -> {task.dataset_id \o "_views.json"}
      [] task.kind = "external_tables" -> {task.dataset_id \o "_external_tables.json"}
      [] task.kind = "tables" -> export_table(task.dataset_id, task.table_id)
      [] task.kind = "scheduled_queries" -> {"scheduled_queries.json"}

\* the task writes its blobs
TaskWrites(i) ==
    /\ i \in DOMAIN writers
    /\ blobs[i] = {}
    /\ blobs' = [blobs EXCEPT ![i] = BlobNames(project_id, writers[i])]
    /\ UNCHANGED <<runVars, regionVars, taskVars, countVars, tripVars, textVars, counterVars,
                   routineVars, project_id, writers>>

\* two distinct tasks of one export run
InitBlobs ==
    /\ mode = "export"
    /\ RunIdle
    /\ RegionsIdle
    /\ TaskIdle
    /\ CountIdle
    /\ TripIdle
    /\ TextIdle
    /\ CounterIdle
    /\ RoutinesIdle
    /\ project_id \in ProjectIds
    /\ writers \in {<<a, b>> : a \in ExportTasks, b \in ExportTasks}
    /\ writers[1] # writers[2]
    /\ blobs = <<{}, {}>>

NextBlobs == \E i \in 1..2 : TaskWrites(i)

SpecBlobs == InitBlobs /\ [][NextBlobs]_vars

\* ---- exporter.py: the query texts an export persists ---------------------------
\* export_views, export_routines and export_scheduled_queries each assign
\* text.replace(f"{self.project_id}.", "") to the object and serialize it.
MaxText == 4
Alphabet == {"p", ".", "f"}
Texts == UNION {[1..n -> Alphabet] : n \in 0..MaxText}
TextKinds == {"view", "routine", "scheduled_query"}

\* the task serializes the object: the replaced text goes into the record,
\* except for a routine whose body is empty, which is skipped
PersistText ==
    /\ persisted.state = "pending"
    /\ textKind \in TextKinds
    /\ persisted' =
          IF textKind = "routine" /\ Falsy(Text(srcText))
            THEN [state |-> "skipped", text |-> <<>>]
            ELSE [state |-> "written", text |-> replace(srcText)]
    /\ UNCHANGED <<runVars, regionVars, taskVars, countVars, tripVars, counterVars, routineVars,
                   blobVars, textKind, srcText>>

\* one object with any text
InitText ==
    /\ mode = "export"
    /\ RunIdle
    /\ RegionsIdle
    /\ TaskIdle
    /\ CountIdle
    /\ TripIdle
    /\ CounterIdle
    /\ RoutinesIdle
    /\ BlobsIdle
    /\ textKind \in TextKinds
    /\ srcText \in Texts
    /\ persisted = NoText

NextText == PersistText

SpecText == InitText /\ [][NextText]_vars

\* ---- utils.py, base.py, importer.py: an object through storage ---------------------
\* Values that are not plain texts carry their Python type: None, a datetime,
\* an object of the client library (by class name) or the dict of its API
\* representation; v identifies the content.
None == [type |-> "None", v |-> 0]
Datetime(i) == [type |-> "datetime", v |-> i]
Str(i) == [type |-> "str", v |-> i]
Obj(cls, i) == [type |-> cls, v |-> i]
Dict(i) == [type |-> "dict", v |-> i]

\* datetime.isoformat(): the ISO-8601 text of the instant
isoformat(t) == Str(t.v)
\* 'x.isoformat() if x else None'
IsoOrNone(t) == IF t = None THEN None ELSE isoformat(t)
\* to_api_repr() of a library object, from_api_repr(dict) of a class
to_api_repr(o) == Dict(o.v)
from_api_repr(cls, d) == Obj(cls, d.v)

\* serialize_routine
serialize_routine(routine) ==
    [routine_id |-> routine.routine_id,
     type_ |-> routine.type_,
     language |-> routine.language,
     body |-> routine.body,
     arguments |-> [i \in DOMAIN routine.arguments |->
                      [name |-> routine.arguments[i].name,
                       data_type |-> to_api_repr(routine.arguments[i].data_type),
                       mode |-> routine.arguments[i].mode]],
     created |-> IsoOrNone(routine.created),
     modified |-> IsoOrNone(routine.modified),
     description |-> routine.description]

\* serialize_view
serialize_view(view) ==
    [table_id |-> view.table_id,
     view_query |-> view.view_query,
     description |-> view.description,
     created |-> IsoOrNone(view.created),
     modified |-> IsoOrNone(view.modified),
     schema |-> [i \in DOMAIN view.schema |-> to_api_repr(view.schema[i])]]

\* serialize_external_table
serialize_external_table(ext_table) ==
    [table_id |-> ext_table.table_id,
     schema |-> [i \in DOMAIN ext_table.schema |-> to_api_repr(ext_table.schema[i])],
     external_data_configuration |-> to_api_repr(ext_table.external_data_configuration),
     description |-> ext_table.description,
     created |-> IsoOrNone(ext_table.created),
     modified |-> IsoOrNone(ext_table.modified)]

\* serialize_message of a mapping: every key with its serialized value (the
\* values here are scalars); of a message object: the dict of its fields
serialize_message(message) ==
    IF DOMAIN message = {"type", "v"} THEN Dict(message.v)
    ELSE [k \in DOMAIN message |-> message[k]]

\* serialize_scheduled_query
serialize_scheduled_query(transfer) ==
    [name |-> transfer.name,
     display_name |-> transfer.display_name,
     data_source_id |-> transfer.data_source_id,
     params |-> serialize_message(transfer.params),
     params_query |-> transfer.params["query"],
     schedule |-> transfer.schedule,
     schedule_options |-> IF transfer.schedule_options = None THEN None
                          ELSE serialize_message(transfer.schedule_options),
     destination_dataset_id |-> transfer.destination_dataset_id,
     disabled |-> transfer.disabled,
     update_time |-> IsoOrNone(transfer.update_time),
     next_run_time |-> IsoOrNone(transfer.next_run_time),
     state |-> transfer.state,
     user_id |-> transfer.user_id,
     dataset_region |-> transfer.dataset_region,
     notification_pubsub_topic |-> transfer.notification_pubsub_topic,
     email_preferences |-> IF transfer.email_preferences = None THEN None
                           ELSE serialize_message(transfer.email_preferences)]

\* save_to_gcs then read_from_gcs: json.dumps(data, indent=2, default=str) and
\* json.loads of the text. Texts, None, dicts and lists come back as they
\* went in; a value json cannot encode goes through str() and comes back as
\* a text
json_value(x) ==
    IF DOMAIN x = {"type", "v"} /\ x.type \notin {"None", "str", "dict"}
      THEN Str(x.v) ELSE x
TypedFields == {"created", "modified", "update_time", "next_run_time",
                "schedule_options", "email_preferences",
                "external_data_configuration"}
through_gcs(data) ==
    [f \in DOMAIN data |-> IF f \in TypedFields THEN json_value(data[f]) ELSE data[f]]

\* the objects of the exporting project
MaxArgs == 2
QueryTexts == {<<"f">>, <<"p", ".", "f">>}
Descriptions == {"<None>", "d"}
Instants == {None, Datetime(1)}
RoutineArguments ==
    {[name |-> "x", data_type |-> Obj("StandardSqlDataType", 1), mode |-> "IN"],
     [name |-> "y", data_type |-> Obj("StandardSqlDataType", 2), mode |-> "IN"]}
ArgumentLists == UNION {[1..n -> RoutineArguments] : n \in 0..MaxArgs}
SchemaFields == {Obj("SchemaField", 1), Obj("SchemaField", 2)}
Schemas == {<<>>} \cup {<<c>> : c \in SchemaFields}
                 \cup {s \in SchemaFields \X SchemaFields : s[1] # s[2]}
ParamMaps(q) ==
    {[k \in {"query"} |-> q],
     [k \in {"query", "write_disposition"} |->
         IF k = "query" THEN q ELSE <<"W">>]}

Routines ==
    {[kind |-> "routine", routine_id |-> "r", type_ |-> "SCALAR_FUNCTION",
      language |-> "SQL", body |-> b, arguments |-> a, created |-> c,
      modified |-> c, description |-> d] :
        b \in QueryTexts, a \in ArgumentLists, c \in Instants, d \in Descriptions}
Views ==
    {[kind |-> "view", table_id |-> "v", view_query |-> q, description |-> d,
      created |-> c, modified |-> c, schema |-> s] :
        q \in QueryTexts, d \in Descriptions, c \in Instants, s \in Schemas}
ExternalTables ==
    {[kind |-> "external_table", table_id |-> "x", schema |-> s,
      external_data_configuration |-> Obj("ExternalConfig", i),
      description |-> d, created |-> c, modified |-> c] :
        s \in Schemas, i \in 1..2, d \in Descriptions, c \in Instants}
ScheduledQueries ==
    {[kind |-> "scheduled_query", name |-> "projects/p/transferConfigs/1",
      display_name |-> "q", data_source_id |-> "scheduled_query", params |-> pm,
      schedule |-> "every 24 hours", schedule_options |-> so,
      destination_dataset_id |-> "a", disabled |-> dis,
      update_time |-> Datetime(1), next_run_time |-> Datetime(2),
      state |-> "SUCCEEDED", user_id |-> "1", dataset_region |-> "europe-north1",
      notification_pubsub_topic |-> "", email_preferences |-> None] :
        pm \in UNION {ParamMaps(q) : q \in QueryTexts},
        so \in {None, Obj("ScheduleOptions", 1)}, dis \in BOOLEAN}

\* the text of the object the export task strips before it serializes
Stripped(o) ==
    CASE o.kind = "routine" -> [o EXCEPT !.body = replace(@)]
      [] o.kind = "view" -> [o EXCEPT !.view_query = replace(@)]
      [] o.kind = "external_table" -> o
      [] o.kind = "scheduled_query" -> [o EXCEPT !.params["query"] = replace(@)]

serialize(o) ==
    CASE o.kind = "routine" -> serialize_routine(o)
      [] o.kind = "view" -> serialize_view(o)
      [] o.kind = "external_table" -> serialize_external_table(o)
      [] o.kind = "scheduled_query" -> serialize_scheduled_query(o)

\* the export task of the object's kind: strip, serialize, save_to_gcs
TripExport ==
    /\ rtpc = "live"
    /\ blobRecord' = through_gcs(serialize(Stripped(exported)))
    /\ rtpc' = "stored"
    /\ UNCHANGED <<runVars, regionVars, taskVars, countVars, counterVars, routineVars, blobVars,
                   textVars, exported, rebuilt>>

\* import_routines: bigquery.Routine(..., type_, language, body, arguments) with
\* RoutineArgument(name, data_type, mode) per argument, then description
routine_from(routine_data) ==
    [kind |-> "routine",
     routine_id |-> routine_data.routine_id,
     type_ |-> routine_data.type_,
     language |-> routine_data.language,
     body |-> routine_data.body,
     arguments |-> [i \in DOMAIN routine_data.arguments |->
                      [name |-> routine_data.arguments[i].name,
                       data_type |-> routine_data.arguments[i].data_type,
                       mode |-> routine_data.arguments[i].mode]],
     created |-> None,
     modified |-> None,
     description |-> routine_data.description]

\* import_views: bigquery.Table(...), view_query, description
view_from(view_data) ==
    [kind |-> "view",
     table_id |-> view_data.table_id,
     view_query |-> view_data.view_query,
     description |-> view_data.description,
     created |-> None,
     modified |-> None,
     schema |-> <<>>]

\* import_external_tables: bigquery.Table(...), schema and
\* external_data_configuration through from_api_repr, description
external_table_from(ext_table_data) ==
    [kind |-> "external_table",
     table_id |-> ext_table_data.table_id,
     schema |-> [i \in DOMAIN ext_table_data.schema |->
                   from_api_repr("SchemaField", ext_table_data.schema[i])],
     external_data_configuration |->
         from_api_repr("ExternalConfig", ext_table_data.external_data_configuration),
     description |-> ext_table_data.description,
     created |-> None,
     modified |-> None]

\* import_scheduled_queries: TransferConfig(display_name, data_source_id,
\* params={"query": params_query}, schedule, destination_dataset_id, disabled)
transfer_config_from(query_data) ==
    [kind |-> "scheduled_query",
     name |-> "",
     display_name |-> query_data.display_name,
     data_source_id |-> query_data.data_source_id,
     params |-> [k \in {"query"} |-> query_data.params_query],
     schedule |-> query_data.schedule,
     schedule_options |-> None,
     destination_dataset_id |-> query_data.destination_dataset_id,
     disabled |-> query_data.disabled,
     update_time |-> None,
     next_run_time |-> None,
     state |-> "",
     user_id |-> "",
     dataset_region |-> "",
     notification_pubsub_topic |-> "",
     email_preferences |-> None]

\* the import task of the object's kind: read_from_gcs, build the object,
\* create it
TripImport ==
    /\ rtpc = "stored"
    /\ rebuilt' = CASE exported.kind = "routine" -> routine_from(blobRecord)
                    [] exported.kind = "view" -> view_from(blobRecord)
                    [] exported.kind = "external_table" -> external_table_from(blobRecord)
                    [] exported.kind = "scheduled_query" -> transfer_config_from(blobRecord)
    /\ rtpc' = "created"
    /\ UNCHANGED <<runVars, regionVars, taskVars, countVars, counterVars, routineVars, blobVars,
                   textVars, exported, blobRecord>>

\* one object of the exporting project
InitTrip ==
    /\ mode = "export"
    /\ RunIdle
    /\ RegionsIdle
    /\ TaskIdle
    /\ CountIdle
    /\ CounterIdle
    /\ RoutinesIdle
    /\ BlobsIdle
    /\ TextIdle
    /\ exported \in Routines \cup Views \cup ExternalTables \cup ScheduledQueries
    /\ blobRecord = <<>>
    /\ rebuilt = <<>>
    /\ rtpc = "live"

NextTrip ==
    \/ TripExport
    \/ TripImport

SpecTrip == InitTrip /\ [][NextTrip]_vars

\* ---- main.py: count_tasks on a listed project and a listed bucket ------------------
\* A blob name is the sequence of its parts: the separators "/" and "." and
\* the words between them. Dataset d of the model has the id DatasetIdOf[d].
DatasetIdOf == <<"a", "a_b", "b", "c">>
TableNames == {"t", "u"}
\* what list_tables can return for a dataset: tables, views, external tables
Listings == {<<>>, <<"TABLE">>, <<"VIEW", "TABLE">>, <<"EXTERNAL">>,
             <<"TABLE", "EXTERNAL", "TABLE">>}

\* the blobs export_table leaves for a table: the files of the extract job
\* under {dataset_id}/{table_id}/ and the schema record beside them
ShardsOf(t) == IF t = "t" THEN {"0", "1"} ELSE {"0"}
TableBlobs(d, t) ==
    {<<DatasetIdOf[d], "/", t, "/", f, ".", "parquet">> : f \in ShardsOf(t)}
    \cup {<<DatasetIdOf[d], "/", t, "_schema", ".", "json">>}
\* the blobs of the other export tasks
SideBlobs ==
    {<<"p", "_config", ".", "json">>, <<"scheduled_queries", ".", "json">>}
    \cup {<<DatasetIdOf[d], k, ".", "json">> :
             d \in Datasets, k \in {"_routines", "_views", "_external_tables"}}

\* len([table for table in tables if table.table_type == 'TABLE'])
managed_tables(tables) == Cardinality({i \in DOMAIN tables : tables[i] = "TABLE"})

\* bucket.list_blobs(prefix=...)
list_blobs(names, prefix) == {b \in names : StartsWith(b, prefix)}
\* str.endswith
EndsWith(t, q) == Len(t) >= Len(q) /\ SubSeq(t, Len(t) - Len(q) + 1, Len(t)) = q
\* str.split('/')
RECURSIVE split(_)
split(t) ==
    IF "/" \notin Range(t) THEN <<t>>
    ELSE LET i == CHOOSE j \in 1..Len(t) :
                     t[j] = "/" /\ \A k \in 1..(j - 1) : t[k] # "/"
         IN <<SubSeq(t, 1, i - 1)>> \o split(SubSeq(t, i + 1, Len(t)))

\* (variant: every blob under the prefix names a table)
table_ids_of_any_blob(names, dataset_id) ==
    {split(b)[2] : b \in list_blobs(names, <<dataset_id, "/">>)}

\* set(blob.name.split('/')[1] for blob in blobs if blob.name.endswith('.parquet'))
\* over list_blobs(prefix=f"{dataset_id}/")
table_ids(names, dataset_id) ==
    {split(b)[2] : b \in {x \in list_blobs(names, <<dataset_id, "/">>) :
                              EndsWith(x, <<".", "parquet">>)}}

\* the call count_tasks(config, components, bucket_name, operation)
CountTasks ==
    /\ counted = -1
    /\ counted' = count_tasks(liveDatasets, components, mode)
    /\ UNCHANGED <<runVars, regionVars, taskVars, counterVars, routineVars, blobVars, textVars,
                   tripVars, listing, stored, bucketNames>>

\* any config, any components, the project as list_tables shows it, the
\* bucket as an export of any tables of any datasets left it
InitCount ==
    /\ mode \in Modes
    /\ components \in ComponentSets
    /\ liveDatasets \in DatasetLists
    /\ listing \in [Datasets -> Listings]
    /\ stored \in [Datasets -> SUBSET TableNames]
    /\ mode = "export" => \A d \in Datasets : stored[d] = {}
    /\ \A d \in Datasets :
          mode = "import" \/ d \notin Range(liveDatasets) => listing[d] = <<>>
    /\ bucketNames = SideBlobs \cup
                        UNION {UNION {TableBlobs(d, t) : t \in stored[d]} : d \in Datasets}
    /\ liveTables = [d \in Datasets |-> managed_tables(listing[d])]
    /\ storedTables = [d \in Datasets |-> Cardinality(table_ids(bucketNames, DatasetIdOf[d]))]
    /\ bucket = "exists"
    /\ download = FALSE
    /\ configBlobs = <<>>
    /\ InitRun
    /\ CounterIdle
    /\ RoutinesIdle
    /\ BlobsIdle
    /\ TextIdle
    /\ TripIdle
    /\ TaskIdle
    /\ RegionsIdle
    /\ counted = -1

NextCount == CountTasks

SpecCount == InitCount /\ [][NextCount]_vars

\* ---- exporter.py, importer.py: one task, call by call -----------------------------
\* The body of a task function is the sequence of the calls it makes to the
\* services. Every call can raise. A call inside an inner try (guard > 0)
\* that raises is logged and the body goes on behind that try; any other
\* takes the body to the except branch of the function.
Call(c) == [call |-> c, guard |-> 0, fails |-> TRUE]
Guarded(c, g) == [call |-> c, guard |-> g, fails |-> TRUE]
RECURSIVE Concat(_)
Concat(ss) == IF ss = <<>> THEN <<>> ELSE Head(ss) \o Concat(Tail(ss))
\* the calls made for each of n objects
Each(n, calls) == Concat([i \in 1..n |-> calls])

\* list_routines, per routine get_routine and serialize_routine, save_to_gcs
export_routines_steps(n) ==
    <<Call("list_routines")>>
    \o Each(n, <<Call("get_routine"), Call("serialize_routine")>>)
    \o <<Call("save_to_gcs")>>
\* list_tables, get_table per view, serialize_view per view, save_to_gcs
export_views_steps(n) ==
    <<Call("list_tables")>> \o Each(n, <<Call("get_table")>>)
    \o Each(n, <<Call("serialize_view")>>) \o <<Call("save_to_gcs")>>
\* list_tables, get_table per external table, serialize_external_table per
\* external table, save_to_gcs
export_external_tables_steps(n) ==
    <<Call("list_tables")>> \o Each(n, <<Call("get_table")>>)
    \o Each(n, <<Call("serialize_external_table")>>) \o <<Call("save_to_gcs")>>
\* (variant: the schema record saved before the extract job is awaited)
export_table_steps_schema_first ==
    <<Call("get_table"), Call("extract_table"), Call("save_to_gcs"), Call("result")>>
\* get_table, extract_table, extract_job.result(), save_to_gcs of the schema
export_table_steps ==
    <<Call("get_table"), Call("extract_table"), Call("result"), Call("save_to_gcs")>>
\* get_all_regions (which catches what it raises), per region an inner try
\* around list_transfer_configs and the serialization of the queries,
\* save_to_gcs
export_scheduled_queries_steps(n) ==
    <<[call |-> "get_all_regions", guard |-> 0, fails |-> FALSE]>>
    \o Concat([i \in 1..n |-> <<Guarded("list_transfer_configs", i),
                                  Guarded("serialize_scheduled_query", i)>>])
    \o <<Call("save_to_gcs")>>
\* read_from_gcs, create_routine per record
import_routines_steps(n) ==
    <<Call("read_from_gcs")>> \o Each(n, <<Call("create_routine")>>)
\* read_from_gcs, per record an inner try around create_table
import_views_steps(n) ==
    <<Call("read_from_gcs")>> \o Concat([i \in 1..n |-> <<Guarded("create_table", i)>>])
\* read_from_gcs, create_table per record
import_external_tables_steps(n) ==
    <<Call("read_from_gcs")>> \o Each(n, <<Call("create_table")>>)
\* read_from_gcs of the schema, load_table_from_uri, load_job.result()
import_table_steps ==
    <<Call("read_from_gcs"), Call("load_table_from_uri"), Call("result")>>
\* read_from_gcs, create_transfer_config per record
import_scheduled_queries_steps(n) ==
    <<Call("read_from_gcs")>> \o Each(n, <<Call("create_transfer_config")>>)

ExportFunctions == {"export_routines", "export_views", "export_external_tables",
                    "export_table", "export_scheduled_queries"}
ImportFunctions == {"import_routines", "import_views", "import_external_tables",
                    "import_table", "import_scheduled_queries"}
StepsOf(f, n) ==
    CASE f = "export_routines" -> export_routines_steps(n)
      [] f = "export_views" -> export_views_steps(n)
      [] f = "export_external_tables" -> export_external_tables_steps(n)
      [] f = "export_table" -> export_table_steps
      [] f = "export_scheduled_queries" -> export_scheduled_queries_steps(n)
      [] f = "import_routines" -> import_routines_steps(n)
      [] f = "import_views" -> import_views_steps(n)
      [] f = "import_external_tables" -> import_external_tables_steps(n)
      [] f = "import_table" -> import_table_steps
      [] f = "import_scheduled_queries" -> import_scheduled_queries_steps(n)

\* the first call behind the inner try the call at i is in
BehindGuard(ss, i) ==
    Min({j \in (i + 1)..(Len(ss) + 1) :
            j = Len(ss) + 1 \/ ss[j].guard # ss[i].guard})

\* the call the body is at returns
TaskCallReturns ==
    /\ tstate = "body"
    /\ tpos <= Len(steps)
    /\ tpos' = tpos + 1
    /\ extract' = IF fn # "export_table" THEN extract
                  ELSE IF steps[tpos].call = "extract_table" THEN "submitted"
                  ELSE IF steps[tpos].call = "result" THEN "ok"
                  ELSE extract
    /\ schemaWritten' = (schemaWritten \/
                           (fn = "export_table" /\ steps[tpos].call = "save_to_gcs"))
    /\ UNCHANGED <<runVars, regionVars, counterVars, routineVars, blobVars, textVars, tripVars,
                   countVars, fn, steps, tstate, terrs>>

\* the call the body is at raises
TaskCallRaises ==
    /\ tstate = "body"
    /\ tpos <= Len(steps)
    /\ steps[tpos].fails
    /\ IF steps[tpos].guard > 0
         THEN /\ terrs' = terrs + 1
              /\ tpos' = BehindGuard(steps, tpos)
              /\ UNCHANGED tstate
         ELSE /\ tstate' = "except"
              /\ UNCHANGED <<tpos, terrs>>
    /\ extract' = IF fn = "export_table" /\ steps[tpos].call \in {"extract_table", "result"}
                    THEN "failed" ELSE extract
    /\ UNCHANGED <<runVars, regionVars, counterVars, routineVars, blobVars, textVars, tripVars,
                   countVars, fn, steps, schemaWritten>>

\* (variant: the update at the end of the try block instead of in finally)
TaskLeavesUpdateInTry ==
    /\ \/ tstate = "body" /\ tpos > Len(steps)
       \/ tstate = "except"
    /\ progress' = IF tstate = "body" THEN progress + 1 ELSE progress
    /\ tstate' = IF tstate = "body" THEN "returned"
                 ELSE IF fn = "export_scheduled_queries" THEN "raised"
                 ELSE "logged"
    /\ UNCHANGED <<runRest, regionVars, counterVars, routineVars, blobVars, textVars, tripVars,
                   countVars, fn, steps, tpos, terrs, extract, schemaWritten>>

\* the function is left: after the last call of the body, or through its
\* except branch, which logs (export_scheduled_queries raises again);
\* finally: progress_bar.update(1)
TaskLeaves ==
    /\ \/ tstate = "body" /\ tpos > Len(steps)
       \/ tstate = "except"
    /\ progress' = progress + 1
    /\ tstate' = IF tstate = "body" THEN "returned"
                 ELSE IF fn = "export_scheduled_queries" THEN "raised"
                 ELSE "logged"
    /\ UNCHANGED <<runRest, regionVars, counterVars, routineVars, blobVars, textVars, tripVars,
                   countVars, fn, steps, tpos, terrs, extract, schemaWritten>>

\* a task function is invoked on a dataset (a table, the project) with up to
\* MaxObjects objects (regions for export_scheduled_queries)
InitTask ==
    /\ fn \in ExportFunctions \cup ImportFunctions
    /\ mode = IF fn \in ExportFunctions THEN "export" ELSE "import"
    /\ RunIdle
    /\ RegionsIdle
    /\ CounterIdle
    /\ RoutinesIdle
    /\ BlobsIdle
    /\ TextIdle
    /\ TripIdle
    /\ CountIdle
    /\ \E n \in 0..MaxObjects : steps = StepsOf(fn, n)
    /\ tpos = 1
    /\ tstate = "body"
    /\ terrs = 0
    /\ extract = "none"
    /\ schemaWritten = FALSE

NextTask ==
    \/ TaskCallReturns
    \/ TaskCallRaises
    \/ TaskLeaves

SpecTask == InitTask /\ [][NextTask]_vars

\* ---- exporter.py: export_scheduled_queries, region by region -----------------------
\* What the transfer service holds for a region: whether list_transfer_configs
\* answers, and the transfer configs it lists. A config is a scheduled query or
\* of another data source; 'raises' marks one whose stripping or serialization
\* raises (a params map without 'query', for one).
ListedRegions == {"US", "EU"}
RegionOrders ==
    {<<>>} \cup {<<r>> : r \in ListedRegions}
           \cup {s \in ListedRegions \X ListedRegions : s[1] # s[2]}
TransferKinds ==
    {[data_source_id |-> "scheduled_query", raises |-> FALSE],
     [data_source_id |-> "scheduled_query", raises |-> TRUE],
     [data_source_id |-> "other", raises |-> FALSE]}
TransferLists == UNION {[1..n -> TransferKinds] : n \in 0..MaxObjects}
NoTransfers == [lists |-> TRUE, items |-> <<>>]

\* [transfer for transfer in transfers if transfer.data_source_id ==
\* 'scheduled_query'], each with the region and its place in the listing
scheduled_queries(r) ==
    SelectSeq([i \in DOMAIN transfers[r].items |->
                  [id |-> <<r, i>>,
                   data_source_id |-> transfers[r].items[i].data_source_id,
                   raises |-> transfers[r].items[i].raises]],
              LAMBDA t : t.data_source_id = "scheduled_query")

\* the region's try block up to the list comprehension: the client is built
\* and list_transfer_configs called; when it raises, the except branch of the
\* region logs and the loop goes to the next region
RegionList ==
    /\ sqpc = "regions"
    /\ rgi <= Len(regionList)
    /\ qi = 0
    /\ IF transfers[regionList[rgi]].lists
         THEN qi' = 1 /\ UNCHANGED rgi
         ELSE rgi' = rgi + 1 /\ UNCHANGED qi
    /\ UNCHANGED <<runVars, counterVars, routineVars, blobVars, textVars, tripVars,
                   countVars, taskVars, regionList, transfers, all_queries, sqBlob,
                   sqpc>>

\* (variant: no try block around a region, an error ends the loop)
RegionQueryFailureEndsLoop ==
    /\ sqpc = "regions"
    /\ rgi <= Len(regionList)
    /\ qi >= 1
    /\ LET sq == scheduled_queries(regionList[rgi])
       IN IF qi > Len(sq)
            THEN rgi' = rgi + 1 /\ qi' = 0 /\ UNCHANGED all_queries
          ELSE IF sq[qi].raises
            THEN rgi' = Len(regionList) + 1 /\ qi' = 0 /\ UNCHANGED all_queries
          ELSE /\ all_queries' = Append(all_queries, sq[qi].id)
               /\ qi' = qi + 1
               /\ UNCHANGED rgi
    /\ UNCHANGED <<runVars, counterVars, routineVars, blobVars, textVars, tripVars,
                   countVars, taskVars, regionList, transfers, sqBlob, sqpc>>

\* one turn of 'for query in scheduled_queries': the query text is stripped,
\* the query serialized and appended to all_queries; when that raises, the
\* except branch of the region logs and the loop goes to the next region;
\* behind the last query the count of the region is logged
RegionQuery ==
    /\ sqpc = "regions"
    /\ rgi <= Len(regionList)
    /\ qi >= 1
    /\ LET sq == scheduled_queries(regionList[rgi])
       IN IF qi > Len(sq)
            THEN rgi' = rgi + 1 /\ qi' = 0 /\ UNCHANGED all_queries
          ELSE IF sq[qi].raises
            THEN rgi' = rgi + 1 /\ qi' = 0 /\ UNCHANGED all_queries
          ELSE /\ all_queries' = Append(all_queries, sq[qi].id)
               /\ qi' = qi + 1
               /\ UNCHANGED rgi
    /\ UNCHANGED <<runVars, counterVars, routineVars, blobVars, textVars, tripVars,
                   countVars, taskVars, regionList, transfers, sqBlob, sqpc>>

\* behind the loop: save_to_gcs("scheduled_queries.json", all_queries);
\* finally: progress_bar.update(1)
QueriesSave ==
    /\ sqpc = "regions"
    /\ rgi > Len(regionList)
    /\ sqBlob' = [written |-> TRUE, data |-> all_queries]
    /\ sqpc' = "saved"
    /\ progress' = progress + 1
    /\ UNCHANGED <<runRest, counterVars, routineVars, blobVars, textVars, tripVars,
                   countVars, taskVars, regionList, transfers, rgi, qi, all_queries>>

\* save_to_gcs raises: the outer except branch logs and raises again;
\* finally: progress_bar.update(1)
QueriesSaveFails ==
    /\ sqpc = "regions"
    /\ rgi > Len(regionList)
    /\ sqpc' = "raised"
    /\ progress' = progress + 1
    /\ UNCHANGED <<runRest, counterVars, routineVars, blobVars, textVars, tripVars,
                   countVars, taskVars, regionList, transfers, rgi, qi, all_queries,
                   sqBlob>>

\* export_scheduled_queries has the regions from get_all_regions
InitRegions ==
    /\ mode = "export"
    /\ RunIdle
    /\ CounterIdle
    /\ RoutinesIdle
    /\ BlobsIdle
    /\ TextIdle
    /\ TripIdle
    /\ CountIdle
    /\ TaskIdle
    /\ regionList \in RegionOrders
    /\ transfers \in [ListedRegions -> [lists : BOOLEAN, items : TransferLists]]
    /\ \A r \in ListedRegions :
          /\ r \notin Range(regionList) => transfers[r] = NoTransfers
          /\ ~transfers[r].lists => transfers[r].items = <<>>
    /\ rgi = 1
    /\ qi = 0
    /\ all_queries = <<>>
    /\ sqBlob = NoBlob
    /\ sqpc = "regions"

NextRegions ==
    \/ RegionList
    \/ RegionQuery
    \/ QueriesSave
    \/ QueriesSaveFails

SpecRegions == InitRegions /\ [][NextRegions]_vars

\* ---- properties ---------------------------------------------------------------
Begun(d, k) == stage[d][k] # "idle"
Finished(d, k) == k \in components => stage[d][k] = "finished"

\* every import_table task of dataset d has been submitted and has returned
TableTasksReturned(d) ==
    "tables" \in components =>
        /\ pool[d].submitted = storedTables[d]
        /\ pool[d].returned = storedTables[d]

\* no executor is open: the orchestrating thread is outside every with block
PoolClosed ==
    /\ pc \notin {"submit", "scheduled_queries", "wait", "unwind"}
    /\ ~(pc = "stage" /\ kind = "tables" /\ busy)

\* C1: when a run has completed, the number of progress increments performed
\* equals the total count_tasks returned before the run, for every components
\* subset and both modes.
C1_CountEqualsIncrements ==
    pc = "done" => progress = total

\* C2: the progress counter is never decremented and, once the total is
\* computed, never exceeds it.
C2_CounterWithinTotal ==
    [][progress' >= progress /\ (pc \notin {"init", "main"} => progress' <= total)]_vars

\* C3: in an import, for every dataset, the external-table stage begins only
\* when every table load of the dataset has returned, the view stage only when
\* the external-table stage has finished, the routine stage only when the view
\* stage has finished.
C3_StagesInOrder ==
    mode = "import" =>
        \A d \in Datasets :
            /\ Begun(d, "external_tables") => TableTasksReturned(d) /\ Finished(d, "tables")
            /\ Begun(d, "views") =>
                  /\ Finished(d, "external_tables")
                  /\ TableTasksReturned(d) /\ Finished(d, "tables")
            /\ Begun(d, "routines") =>
                  /\ Finished(d, "views")
                  /\ Finished(d, "external_tables")
                  /\ TableTasksReturned(d) /\ Finished(d, "tables")

\* the routine stage of the first dataset is running after its tables (one of
\* which failed to load), external tables and views
C3_Witness ==
    /\ mode = "import"
    /\ components = Kinds
    /\ di = 1
    /\ stage[config[1]]["routines"] = "running"
    /\ storedTables[config[1]] >= 1
    /\ failed

\* C4 as claimed: once any external-table, view or routine task of any dataset
\* has begun, the table loads of every dataset of the config have returned.
C4_TablesFirstGlobally ==
    mode = "import" =>
        ((\E d \in Datasets : \E k \in {"external_tables", "views", "routines"} : Begun(d, k))
            => \A j \in 1..Len(config) : TableTasksReturned(config[j]))

\* C4 as amended: once an external-table, view or routine task of a dataset
\* has begun, the table loads of that dataset and of every dataset before it
\* in the config have returned.
C4_TablesFirstUpToDataset ==
    mode = "import" =>
        \A j \in 1..Len(config) :
            (\E k \in {"external_tables", "views", "routines"} : Begun(config[j], k))
                => \A j2 \in 1..j : TableTasksReturned(config[j2])

\* the views of the second dataset of the config are being imported, both
\* datasets have table loads
C4_Witness ==
    /\ mode = "import"
    /\ Len(config) = 2
    /\ di = 2
    /\ stage[config[2]]["views"] = "running"
    /\ "tables" \in components
    /\ \A j \in 1..2 : storedTables[config[j]] >= 1

C6_TaskFailuresContained ==
    /\ \A e \in Executors : pool[e].raised = 0
    /\ exc # "future"
    /\ PoolClosed => \A e \in Executors : pool[e].returned = pool[e].submitted

\* an export is over, a pooled task failed and its siblings have run
C6_Witness ==
    /\ mode = "export"
    /\ pc = "done"
    /\ failed
    /\ pool[0].submitted >= 2
    /\ pool[0].returned = pool[0].submitted

C8_AbortUnlessOneConfig ==
    (mode = "import" /\ Len(configBlobs) # 1
                     /\ pc \notin {"init", "main", "construct", "find_config"}) =>
        /\ pc = "aborted"
        /\ config = <<>>
        /\ progress = 0

StageRank(k) ==
    CASE k = "tables" -> 1
      [] k = "external_tables" -> 2
      [] k = "views" -> 3
      [] k = "routines" -> 4
      [] OTHER -> 5
Passed(j, k) ==
    \/ pc \in {"finish", "done"}
    \/ pc = "stage" /\ kind = "scheduled_queries"
    \/ pc \in {"stage", "ensure"} /\ j < di
    \/ pc = "stage" /\ j = di /\ StageRank(k) < StageRank(kind)

C10_AtMostEightRunning ==
    \A e \in Executors : Running(e) <= 8

\* eight table loads execute and a ninth waits in the queue
C10_Witness ==
    /\ mode = "import"
    /\ \E e \in Executors : Running(e) = 8 /\ Queued(e) > 0

\* C11: once every task has finished its progress update, progress_bar.n is
\* the number of tasks that finished, whatever the interleaving of the threads.
C11_NoLostIncrement ==
    (\A t \in Threads : upc[t] \in {"off", "done"}) =>
        bar_n = Cardinality({t \in Threads : upc[t] = "done"})

\* C12: when the bucket lookup raises Forbidden, or reports not-found and the
\* creation raises Conflict, the constructor raises, the run is over and does
\* nothing more (no dataset listed, no blob read or written, no task run); a
\* constructor calls create_bucket only when its lookup reported not-found.
C12_FatalBucketInit ==
    [][/\ exc \in {"forbidden", "conflict"} => vars' = vars
       /\ exc' \in {"forbidden", "conflict"} =>
             /\ pc' = "aborted"
             /\ total' = 0 /\ progress' = 0 /\ config' = <<>>
             /\ \A e \in Executors : pool'[e] = EmptyPool
             /\ UNCHANGED <<liveDatasets, configBlobs, bucket>>
       /\ (pc \in {"init", "main", "construct"} /\ pc' # pc) =>
             /\ bucketCalls'[1] = "get_bucket"
             /\ "create_bucket" \in Range(bucketCalls') <=> get_bucket(bucket) = "not_found"
             /\ get_bucket(bucket) = "forbidden" => exc' = "forbidden"
             /\ (get_bucket(bucket) = "not_found" /\ create_bucket(bucket) = "conflict")
                    => exc' = "conflict"]_vars

\* the lookup did not find the bucket, the creation was refused: the run is
\* over before main listed the datasets
C12_Witness ==
    /\ bucket = "taken"
    /\ bucketCalls = <<"get_bucket", "create_bucket">>
    /\ exc = "conflict"
    /\ pc = "aborted"

\* C13: in an import, create_dataset is called for a dataset exactly when
\* get_dataset reported it not found, and the dataset is added to the project
\* only by that call; when get_dataset raises anything else, the exception
\* leaves import_project: the run is over, and no stage of that dataset has
\* run or will run.
C13_CreateIffNotFound ==
    [][mode = "import" =>
        /\ (probe' # probe /\ probe'.ds # 0) =>
              /\ pc = "ensure" /\ probe'.ds = config[di]
              /\ probe'.get_dataset = "found" => probe'.ds \in Range(liveDatasets)
              /\ probe'.get_dataset = "not_found" => probe'.ds \notin Range(liveDatasets)
              /\ probe'.create_dataset # "none" <=> probe'.get_dataset = "not_found"
              /\ liveDatasets' = IF probe'.create_dataset = "created"
                                   THEN Append(liveDatasets, probe'.ds) ELSE liveDatasets
              /\ probe'.get_dataset = "error" =>
                    /\ exc' = "get_dataset"
                    /\ pc' = "aborted"
                    /\ \A k \in StageKinds : stage'[probe'.ds][k] = "idle"
        /\ liveDatasets' # liveDatasets => (probe' # probe /\ probe'.create_dataset = "created")
        /\ exc = "get_dataset" => vars' = vars]_vars

\* the probe of the second dataset of the config raised: the run is over, the
\* first dataset was created and its stages ran, the second has no stage
C13_Witness ==
    /\ mode = "import"
    /\ exc = "get_dataset"
    /\ pc = "aborted"
    /\ di = 2
    /\ probe.ds = config[2]
    /\ probe.get_dataset = "error"
    /\ stage[config[1]]["views"] = "finished"
    /\ config[1] \in Range(liveDatasets)

Count(d, s) == Cardinality({i \in 1..Len(s) : s[i] = d})

\* C14: when the probe finds the dataset, no create_dataset call is made and
\* neither call raises; the project never holds two datasets of one id, and
\* ensuring a dataset once more after it was ensured calls no create_dataset
\* and leaves the datasets as they were, with one dataset of that id.
C14_EnsureIdempotent ==
    /\ probe.get_dataset = "found" =>
          /\ probe.create_dataset = "none"
          /\ exc \notin {"get_dataset", "create_dataset"}
    /\ \A d \in Datasets :
          LET once == ensure_dataset(liveDatasets, d)
              twice == ensure_dataset(once.datasets, d)
          IN /\ Count(d, liveDatasets) <= 1
             /\ Count(d, once.datasets) = 1
             /\ twice.create_dataset = "none"
             /\ twice.datasets = once.datasets

\* the second dataset of the config was found in the project, which still
\* holds its two datasets, and its first stage is next
C14_Witness ==
    /\ mode = "import"
    /\ probe.ds = 2
    /\ probe.get_dataset = "found"
    /\ probe.create_dataset = "none"
    /\ liveDatasets = <<1, 2>>
    /\ pc = "stage"

\* C15: when get_all_regions fails in an export, export_scheduled_queries goes
\* through exactly the regions US, EU and europe-north1 and goes on to the
\* write of scheduled_queries.json; with the blob written, the run is not ended
\* by the scheduled-query export.
C15_FallbackRegions ==
    (mode = "export" /\ sqOut.enumFailed) =>
        /\ sqOut.regions = {"US", "EU", "europe-north1"}
        /\ sqOut.written \/ exc = "scheduled_queries"
        /\ sqOut.written =>
              /\ exc # "scheduled_queries"
              /\ pc \in {"wait", "download", "done", "aborted"}
              /\ pc = "aborted" => exc = "download"

\* an export whose region enumeration failed has written scheduled_queries.json
\* and is completed
C15_Witness ==
    /\ mode = "export"
    /\ sqOut.enumFailed
    /\ sqOut.written
    /\ sqRuns = 1
    /\ completed
    /\ pc = "done"

\* the texts export_routines is to write for the listed routines: the replaced
\* body of every routine whose body is neither absent nor empty
RECURSIVE Exportable(_)
Exportable(rs) ==
    IF rs = <<>> THEN <<>>
    ELSE (IF Falsy(Head(rs)) THEN <<>> ELSE <<replace(Head(rs).text)>>)
         \o Exportable(Tail(rs))

\* C16: when no call of export_routines raised, the task ends with the blob
\* {dataset_id}_routines.json written, holding every routine of the dataset
\* whose body is neither absent nor zero-length and no other.
C16_EmptyBodiesSkipped ==
    (rpc \in {"saved", "raised"} /\ rexc # "call") =>
        /\ rpc = "saved"
        /\ routinesBlob.written
        /\ routinesBlob.data = Exportable(routines)

\* C17: in an export, when "completed" has been logged, and when the download
\* runs or the run is done, every task submitted to the pool has been executed
\* and has ended, none is queued or running, and export_scheduled_queries is
\* not running.
C17_DownloadAfterDrain ==
    (mode = "export" /\ (completed \/ pc \in {"download", "done"})) =>
        /\ pool[0].started = pool[0].submitted
        /\ pool[0].returned + pool[0].raised = pool[0].submitted
        /\ Queued(0) = 0 /\ Running(0) = 0
        /\ ~busy

\* the download of an export is about to run: three or more tasks were
\* submitted, the scheduled queries were exported
C17_Witness ==
    /\ mode = "export"
    /\ pc = "download"
    /\ completed
    /\ pool[0].submitted >= 3
    /\ sqRuns = 1

\* the run is over
Terminated == pc \in {"done", "aborted"}

\* the bucket was initialized and the config obtained (export: listed and
\* written, import: found and read)
StartupPassed ==
    /\ pc \notin {"init", "main", "construct", "snapshot", "find_config"}
    /\ exc \notin {"forbidden", "conflict", "config", "no_config"}
    /\ ~(exc = "storage" /\ di = 0)

\* every task of the task set has been executed to its end: one task per
\* selected per-dataset kind and config dataset, one per table found, one for
\* the scheduled queries
FullTaskSetExecuted == progress = count_tasks(config, components, mode)

TaskDatasets == {d \in Datasets : \E k \in StageKinds : stage[d][k] # "idle"}

\* the run has its config
ConfigTaken ==
    /\ pc \notin {"init", "main", "construct", "snapshot", "find_config"}
    /\ exc \notin {"forbidden", "conflict", "config", "no_config"}
    /\ ~(exc = "storage" /\ di = 0)

\* C19: once the run has its config, the config and the config blob do not
\* change, whatever is created in the project; the config of an export is the
\* list it wrote to the config blob, the config of an import the list of the
\* stored blob; the loop of an export goes over the datasets of the config,
\* only datasets of the config get a task, and when the loop over the datasets
\* is over every dataset of the config has got the tasks of each selected kind.
C19_ConfigIsSnapshot ==
    /\ [][ConfigTaken => (config' = config /\ configBlobs' = configBlobs)]_vars
    /\ [](ConfigTaken =>
            /\ config = configBlobs[config_file_name]
            /\ pc = "submit" => di \in 1..Len(config)
            /\ TaskDatasets \subseteq Range(config)
            /\ (mode = "export" /\ pc \in {"scheduled_queries", "wait", "download", "done"}) =>
                  \A j \in 1..Len(config) :
                      /\ \A k \in components \cap {"routines", "views", "external_tables"} :
                            stage[config[j]][k] = "submitted"
                      /\ ("tables" \in components /\ liveTables[config[j]] > 0) =>
                            stage[config[j]]["tables"] = "submitted"
            /\ (mode = "import" /\ pc \in {"finish", "done"}) =>
                  \A j \in 1..Len(config) : \A k \in components \cap StageKinds :
                      stage[config[j]][k] = "finished")

\* an export of one dataset is done with every component; a second dataset
\* was created in the project during the run
C19_Witness ==
    /\ mode = "export"
    /\ pc = "done"
    /\ components = Kinds
    /\ config = <<1>>
    /\ liveDatasets = <<1, 2>>
    /\ TaskDatasets = {1}

\* C20: two distinct tasks of one export run (the config write and the
\* scheduled-query task included) have no blob name in common.
C20_DisjointBlobs ==
    writers # <<>> => blobs[1] \cap blobs[2] = {}

\* the tables t and t_schema of one dataset have both been exported
C20_Witness ==
    /\ writers = <<[kind |-> "tables", dataset_id |-> "a", table_id |-> "t"],
                 [kind |-> "tables", dataset_id |-> "a", table_id |-> "t_schema"]>>
    /\ "a/t_schema.json" \in blobs[1]
    /\ "a/t_schema_schema.json" \in blobs[2]
    /\ "a/t_schema/000000000000.parquet" \in blobs[2]

\* the text t holds an occurrence of q
Contains(t, q) == \E i \in 1..Len(t) : StartsWith(SubSeq(t, i, Len(t)), q)

\* C21: a text persisted by an export holds no occurrence of the qualifier
\* "{project_id}." of the exporting project, and stripping it once more leaves
\* it as it is.
C21_NoQualifierLeft ==
    persisted.state = "written" =>
        /\ ~Contains(persisted.text, Qualifier)
        /\ replace(persisted.text) = persisted.text

\* the rebuilt object carries what the record holds, field by field. Fields
\* the service assigns when it creates an object (created, modified, name,
\* update_time, next_run_time, state, user_id, dataset_region, the schema of a
\* view) are left out of the comparison.
SameRoutine(rec, o) ==
    /\ o.routine_id = rec.routine_id
    /\ o.type_ = rec.type_
    /\ o.language = rec.language
    /\ o.body = rec.body
    /\ o.description = rec.description
    /\ Len(o.arguments) = Len(rec.arguments)
    /\ \A i \in DOMAIN rec.arguments :
          /\ o.arguments[i].name = rec.arguments[i].name
          /\ o.arguments[i].mode = rec.arguments[i].mode
          /\ o.arguments[i].data_type.v = rec.arguments[i].data_type.v
SameView(rec, o) ==
    /\ o.table_id = rec.table_id
    /\ o.view_query = rec.view_query
    /\ o.description = rec.description
SameExternalTable(rec, o) ==
    /\ o.table_id = rec.table_id
    /\ o.description = rec.description
    /\ to_api_repr(o.external_data_configuration) = rec.external_data_configuration
    /\ Len(o.schema) = Len(rec.schema)
    /\ \A i \in DOMAIN rec.schema : to_api_repr(o.schema[i]) = rec.schema[i]
SameScheduledQuery(rec, o) ==
    /\ o.display_name = rec.display_name
    /\ o.data_source_id = rec.data_source_id
    /\ o.schedule = rec.schedule
    /\ o.destination_dataset_id = rec.destination_dataset_id
    /\ o.disabled = rec.disabled
    /\ DOMAIN o.params = DOMAIN rec.params
    /\ \A k \in DOMAIN rec.params : k \in DOMAIN o.params => o.params[k] = rec.params[k]
    /\ (rec.schedule_options = None) = (o.schedule_options = None)
    /\ rec.schedule_options # None => to_api_repr(o.schedule_options) = rec.schedule_options

\* C22: the object an import rebuilds from a record equals the exported object
\* in the persisted fields: the record is the serialization of the exported
\* object with its text stripped, and the rebuilt object carries every field
\* of the record (arguments in order, the whole params map, the schedule
\* options).
C22_RoundTrip ==
    rtpc = "created" =>
        /\ exported.kind = "routine" =>
              /\ SameRoutine(blobRecord, rebuilt)
              /\ SameRoutine(blobRecord, Stripped(exported))
        /\ exported.kind = "view" =>
              /\ SameView(blobRecord, rebuilt)
              /\ SameView(blobRecord, Stripped(exported))
        /\ exported.kind = "external_table" =>
              /\ SameExternalTable(blobRecord, rebuilt)
              /\ SameExternalTable(blobRecord, exported)
        /\ exported.kind = "scheduled_query" =>
              /\ SameScheduledQuery(blobRecord, rebuilt)
              /\ SameScheduledQuery(blobRecord, Stripped(exported))

\* (the part of C22 that holds: routines, views and external tables, and of
\* a scheduled query everything but params beyond 'query' and schedule_options)
C22_RoundTripOfRestoredFields ==
    rtpc = "created" =>
        /\ exported.kind = "routine" =>
              /\ SameRoutine(blobRecord, rebuilt)
              /\ SameRoutine(blobRecord, Stripped(exported))
        /\ exported.kind = "view" =>
              /\ SameView(blobRecord, rebuilt)
              /\ SameView(blobRecord, Stripped(exported))
        /\ exported.kind = "external_table" =>
              /\ SameExternalTable(blobRecord, rebuilt)
              /\ SameExternalTable(blobRecord, exported)
        /\ exported.kind = "scheduled_query" =>
              /\ rebuilt.display_name = exported.display_name
              /\ rebuilt.data_source_id = exported.data_source_id
              /\ rebuilt.schedule = exported.schedule
              /\ rebuilt.destination_dataset_id = exported.destination_dataset_id
              /\ rebuilt.disabled = exported.disabled
              /\ rebuilt.params["query"] = replace(exported.params["query"])

\* the number of entries of the list s that are x
Occurrences(s, x) == Len(SelectSeq(s, LAMBDA y : y = x))

\* C23: count_tasks returns one task per dataset for each selected kind among
\* routines, views and external_tables, plus with 'tables' one per managed
\* table of the config's datasets (export) or one per table id that has
\* parquet blobs under the dataset's prefix (import), plus one with
\* scheduled_queries.
C23_CountTasks ==
    counted # -1 =>
        counted =
            Len(liveDatasets) *
                Cardinality(components \cap {"routines", "views", "external_tables"})
          + (IF "tables" \in components
               THEN SumOver(liveDatasets,
                            [d \in Datasets |->
                                IF mode = "export"
                                  THEN Occurrences(listing[d], "TABLE")
                                  ELSE Cardinality(stored[d])])
               ELSE 0)
          + (IF "scheduled_queries" \in components THEN 1 ELSE 0)

C23_Witness ==
    /\ counted = 6
    /\ mode = "import"
    /\ components = {"routines", "tables", "scheduled_queries"}
    /\ liveDatasets = <<1, 2>>
    /\ stored[1] = {"t", "u"}
    /\ stored[2] = {"t"}

\* C24: each of the ten task functions calls progress_bar.update(1) exactly
\* once per invocation, however the invocation ends: none while its body or
\* its except branch runs, one when it has returned or raised.
C24_OneUpdatePerInvocation ==
    /\ tstate \in {"body", "except"} => progress = 0
    /\ tstate \in {"returned", "logged", "raised"} => progress = 1

\* import_views has failed on two views and has returned
C24_Witness ==
    /\ fn = "import_views"
    /\ terrs = 2
    /\ tstate = "returned"
    /\ progress = 1

\* the operations an export run has in flight against the services: each
\* executing pooled task is inside at most one blocking call, and so is the
\* orchestrating thread while it lists the tables of a dataset between its
\* submits and while it runs export_scheduled_queries
InFlight ==
    Running(0) + (IF pc = "submit" \/ (pc = "scheduled_queries" /\ busy) THEN 1 ELSE 0)

\* C25: during an export run at most 9 operations are in flight at once, the
\* orchestrating thread counted with the pool workers: fewer than the
\* ceiling of 10 of the service.
C25_AtMostNineInFlight ==
    mode = "export" => InFlight <= 9 /\ InFlight < 10

\* eight pooled tasks execute while the orchestrating thread exports the
\* scheduled queries
C25_Witness ==
    /\ mode = "export"
    /\ Running(0) = 8
    /\ pc = "scheduled_queries"
    /\ busy
    /\ InFlight = 9

\* the queries of region r the task is to keep: none when the listing of the
\* region raised, else the scheduled queries listed before the first one
\* that raises, all of them when none does
KeptQueries(r) ==
    LET listed == [i \in DOMAIN transfers[r].items |-> <<r, i>>]
        IsQuery(id) == transfers[r].items[id[2]].data_source_id = "scheduled_query"
        Raises(id) == IsQuery(id) /\ transfers[r].items[id[2]].raises
        Before(id) == \A j \in 1..id[2] : ~Raises(<<r, j>>)
    IN IF transfers[r].lists
         THEN SelectSeq(listed, LAMBDA id : IsQuery(id) /\ Before(id))
         ELSE <<>>

\* C26: a region whose listing or serialization fails does not stop
\* export_scheduled_queries: every region is gone through in order, only the
\* write can make the task raise, and scheduled_queries.json holds, region by
\* region in that order, the queries serialized before a failure of the
\* region and all queries of a region without failure.
C26_RegionFailuresContained ==
    /\ sqpc = "raised" => rgi > Len(regionList)
    /\ sqpc = "saved" =>
          /\ sqBlob.written
          /\ sqBlob.data = Concat([i \in 1..Len(regionList) |-> KeptQueries(regionList[i])])

\* the second query of US raised, EU came after it and is complete
C26_Witness ==
    /\ sqpc = "saved"
    /\ regionList = <<"US", "EU">>
    /\ transfers["US"].lists
    /\ Len(transfers["US"].items) = 2
    /\ transfers["US"].items[2].raises
    /\ sqBlob.data = << <<"US", 1>>, <<"EU", 1>>, <<"EU", 2>> >>

\* C27: in export_table the schema record is written only when the extract job
\* of the table has completed without error, and an invocation whose extract
\* failed writes none.
C27_SchemaAfterExtract ==
    /\ schemaWritten => extract = "ok"
    /\ extract = "failed" => ~schemaWritten

C27_Witness ==
    /\ fn = "export_table"
    /\ schemaWritten
    /\ extract = "ok"
    /\ tstate = "returned"

====
